---- MODULE Spec2Model ----
(***************************************************************************)
(* A model of the OAuth2 core of gin-auth: the grant request handlers      *)
(* (Authorize, Login, Approve), the token endpoint (Token) and the         *)
(* approval ledger (Client.Approve).                                       *)
(*                                                                         *)
(* Every handler is a function from the database and the request's inputs  *)
(* to a new database and a response.  An action of the specification       *)
(* applies one handler to the current database and stores the database it  *)
(* returns; the response goes to the caller and is no part of the state.   *)
(***************************************************************************)
EXTENDS Integers, Sequences, FiniteSets, TLC

VARIABLES
    grantRequests,  \* table GrantRequests: a set of GrantRequest records
    approvals,      \* table ClientApprovals: a set of ClientApproval records
    accessTokens,   \* table AccessTokens
    refreshTokens,  \* table RefreshTokens
    rnd,            \* number of tokens util.RandomToken() has produced so far
    exchanged,      \* history: one record per successful authorization_code exchange
    burned,         \* history: codes whose request was deleted on a client mismatch
    workers,        \* the token requests in flight (concurrent specification)
    expired,        \* the access tokens (by token string) whose expiry has passed
    tokens,         \* tokens.store: the OAuthInfo registered for each request
    serving,        \* the requests in oauth.ServeHTTP, by request identity
    mutex           \* tokens.Mutex: the request that holds it (0: unlocked)

vars == <<grantRequests, approvals, accessTokens, refreshTokens, rnd,
          exchanged, burned, workers, expired, tokens, serving, mutex>>

----------------------------------------------------------------------------
(* Bounds *)

\* util.RandomToken() is called at most MaxRandom times in a behaviour
MaxRandom == 4
\* at most MaxRequests grant requests are stored at a time
MaxRequests == 1
\* number of token requests processed concurrently
NumWorkers == 2
\* number of request identities (*http.Request) oauth.ServeHTTP is called with
NumRequests == 2
\* number of refresh_token exchanges beyond the MaxRandom draws of the flow
MaxRefreshes == 2
\* number of access tokens created while requests carry bearer tokens
MaxTokens == 2

----------------------------------------------------------------------------
(* Registered clients and accounts (rows of Clients and Accounts) *)

Clients ==
    { [UUID |-> "u1", Name |-> "c1", Secret |-> "s1",
       ScopeProvided |-> {"read"}, ScopeWhitelist |-> {"read", "write"},
       RedirectURIs |-> {"https://a/cb"}],
      [UUID |-> "u2", Name |-> "c2", Secret |-> "s2",
       ScopeProvided |-> {"profile", "email"}, ScopeWhitelist |-> {},
       RedirectURIs |-> {"https://b/cb"}] }

Accounts ==
    { [UUID |-> "ua", Login |-> "alice", Password |-> "pa"],
      [UUID |-> "ub", Login |-> "bob", Password |-> "pb"] }

\* sql.NullString
NullString(s) == [String |-> s, Valid |-> TRUE]
NoAccount == [String |-> "", Valid |-> FALSE]
NoCode == [String |-> 0, Valid |-> FALSE]

The(S) == CHOOSE x \in S : TRUE

----------------------------------------------------------------------------
(* util: string sets and random tokens *)

\* strings.Split(s, " "): the wire string is a list of names; the empty
\* string splits into one empty name
Split(wire) == IF wire = <<>> THEN <<"">> ELSE wire

NewStringSet(list) == { list[i] : i \in DOMAIN list }

\* util.RandomToken(): a token no earlier call has returned
RandomToken(db) == db.rnd + 1

Drawn(db) == [db EXCEPT !.rnd = @ + 1]

----------------------------------------------------------------------------
(* data: clients, scope, approvals *)

GetClientByName(name) == { c \in Clients : c.Name = name }

GetClient(uuid) == { c \in Clients : c.UUID = uuid }

GetAccountByLogin(login) == { a \in Accounts : a.Login = login }

VerifyPassword(account, password) == account.Password = password

\* CheckScope without the test of the empty scope
CheckScope_AcceptsEmpty(scope) ==
    LET global == UNION { c.ScopeProvided : c \in Clients }
    IN  scope \subseteq global

CheckScope(scope) ==
    IF Cardinality(scope) = 0
    THEN FALSE
    ELSE LET global == UNION { c.ScopeProvided : c \in Clients }
         IN  scope \subseteq global

ApprovalForAccount(db, client, accountUUID) ==
    { a \in db.approvals :
        a.ClientUUID = client.UUID /\ a.AccountUUID = accountUUID }

\* ClientApproval.Update: replaces the row of the same (client, account)
ApprovalUpdate(db, approval) ==
    [db EXCEPT !.approvals =
        { IF a.ClientUUID = approval.ClientUUID
             /\ a.AccountUUID = approval.AccountUUID
          THEN approval ELSE a : a \in @ }]

\* ClientApproval.Create
ApprovalCreate(db, approval) ==
    [db EXCEPT !.approvals = @ \cup {approval}]

\* Client.Approve with the union left out: the new scope replaces the old one
ClientApprove_Replace(db, client, accountUUID, scope) ==
    IF ~CheckScope(scope)
    THEN [err |-> "Invalid scope", db |-> db]
    ELSE LET found == ApprovalForAccount(db, client, accountUUID)
             fresh == [ClientUUID |-> client.UUID,
                       AccountUUID |-> accountUUID, Scope |-> scope]
         IN  IF found # {}
             THEN [err |-> "", db |-> ApprovalUpdate(db, fresh)]
             ELSE [err |-> "", db |-> ApprovalCreate(db, fresh)]

ClientApprove(db, client, accountUUID, scope) ==
    IF ~CheckScope(scope)
    THEN [err |-> "Invalid scope", db |-> db]
    ELSE LET found == ApprovalForAccount(db, client, accountUUID)
         IN  IF found # {}
             THEN LET approval == The(found)
                  IN  IF ~(scope \subseteq approval.Scope)
                      THEN [err |-> "",
                            db |-> ApprovalUpdate(db,
                                [approval EXCEPT !.Scope = @ \cup scope])]
                      ELSE [err |-> "", db |-> db]
             ELSE [err |-> "",
                   db |-> ApprovalCreate(db,
                       [ClientUUID |-> client.UUID,
                        AccountUUID |-> accountUUID,
                        Scope |-> scope])]

----------------------------------------------------------------------------
(* data: grant requests and tokens *)

GetGrantRequest(db, token) == { r \in db.grantRequests : r.Token = token }

GetGrantRequestByCode(db, code) ==
    { r \in db.grantRequests : r.Code.Valid /\ r.Code.String = code }

\* GrantRequest.Create: stores the request under a fresh token
GrantRequestCreate(db, request) ==
    LET stored == [request EXCEPT !.Token = RandomToken(db)]
    IN  [request |-> stored,
         db |-> [Drawn(db) EXCEPT !.grantRequests = @ \cup {stored}]]

\* GrantRequest.Update: writes the row with the request's token, if any
GrantRequestUpdate(db, request) ==
    [db EXCEPT !.grantRequests =
        { IF r.Token = request.Token THEN request ELSE r : r \in @ }]

\* GrantRequest.Delete
GrantRequestDelete(db, request) ==
    [db EXCEPT !.grantRequests = { r \in @ : r.Token # request.Token }]

\* GrantRequest.Client
RequestClient(request) == The(GetClient(request.ClientUUID))

\* GrantRequest.IsApproved
IsApproved(db, request) ==
    LET client == RequestClient(request)
        required == request.ScopeRequested \ client.ScopeWhitelist
        found == ApprovalForAccount(db, client, request.AccountUUID.String)
    IN  \/ required = {}
        \/ /\ found # {}
           /\ required \subseteq The(found).Scope

\* a Create() that stores no account with the token
AccessTokenCreate_NoAccount(db, token) ==
    [db EXCEPT !.accessTokens = @ \cup {[token EXCEPT !.AccountUUID = NoAccount]}]

\* AccessToken.Delete
AccessTokenDelete(db, token) ==
    [db EXCEPT !.accessTokens = { t \in @ : t.Token # token.Token }]

\* AccessToken.Create
AccessTokenCreate(db, token) ==
    [db EXCEPT !.accessTokens = @ \cup {token}]

\* err != nil after a Create(): the store refuses the new row (a persistence
\* failure such as a duplicate key)
CreateFails(db) == db.createFails

\* GrantRequest.ExchangeCodeForTokens: in one transaction, if the request is
\* still stored, creates an access and a refresh token for it and deletes it
ExchangeCodeForTokens(db, request) ==
    IF GetGrantRequest(db, request.Token) = {}
    THEN [err |-> "Grant request does not exist", db |-> db,
          access |-> 0, refresh |-> 0]
    ELSE IF CreateFails(db)
    THEN [err |-> "create failed", db |-> db, access |-> 0, refresh |-> 0]
    ELSE LET access == RandomToken(db)
             refresh == RandomToken(Drawn(db))
             db2 == Drawn(Drawn(db))
         IN  [err |-> "",
              access |-> access,
              refresh |-> refresh,
              db |-> [GrantRequestDelete(db2, request) EXCEPT
                  !.accessTokens = @ \cup
                      {[Token |-> access, ClientUUID |-> request.ClientUUID,
                        AccountUUID |-> request.AccountUUID,
                        Scope |-> request.ScopeRequested]},
                  !.refreshTokens = @ \cup
                      {[Token |-> refresh, ClientUUID |-> request.ClientUUID,
                        AccountUUID |-> request.AccountUUID.String,
                        Scope |-> request.ScopeRequested]},
                  !.exchanged = @ \cup
                      {[Code |-> request.Code.String, Access |-> access,
                        Refresh |-> refresh]}]]

\* Client.CreateGrantRequest without the check of the redirect URI
CreateGrantRequest_AnyRedirect(db, client, responseType, redirectURI, state, scope) ==
    IF ~(responseType = "code" \/ responseType = "token")
    THEN [err |-> "Response type expected to be 'code' or 'token'", db |-> db,
          request |-> {}]
    ELSE IF ~CheckScope(scope)
    THEN [err |-> "Invalid scope", db |-> db, request |-> {}]
    ELSE LET request == [Token |-> 0,
                         GrantType |-> responseType,
                         RedirectURI |-> redirectURI,
                         State |-> state,
                         ScopeRequested |-> scope,
                         ClientUUID |-> client.UUID,
                         AccountUUID |-> NoAccount,
                         Code |-> NoCode]
             created == GrantRequestCreate(db, request)
         IN  [err |-> "", db |-> created.db, request |-> {created.request}]

\* Client.CreateGrantRequest
CreateGrantRequest(db, client, responseType, redirectURI, state, scope) ==
    IF ~(responseType = "code" \/ responseType = "token")
    THEN [err |-> "Response type expected to be 'code' or 'token'", db |-> db,
          request |-> {}]
    ELSE IF redirectURI \notin client.RedirectURIs
    THEN [err |-> "Redirect URI invalid", db |-> db, request |-> {}]
    ELSE IF ~CheckScope(scope)
    THEN [err |-> "Invalid scope", db |-> db, request |-> {}]
    ELSE LET request == [Token |-> 0,
                         GrantType |-> responseType,
                         RedirectURI |-> redirectURI,
                         State |-> state,
                         ScopeRequested |-> scope,
                         ClientUUID |-> client.UUID,
                         AccountUUID |-> NoAccount,
                         Code |-> NoCode]
             created == GrantRequestCreate(db, request)
         IN  [err |-> "", db |-> created.db, request |-> {created.request}]

----------------------------------------------------------------------------
(* web: responses *)

Response(status, msg) ==
    [status |-> status, msg |-> msg, access |-> 0, refresh |-> 0,
     code |-> 0, request_id |-> 0, scope |-> {}]

\* a panic ends the handler; what it has written stays written
Panic(db) == [db |-> db, resp |-> Response(500, "panic")]

----------------------------------------------------------------------------
(* web: the grant request handlers *)

Authorize(db, clientId, responseType, redirectURI, state, scopeWire) ==
    LET found == GetClientByName(clientId)
    IN  IF found = {}
        THEN [db |-> db, resp |-> Response(400, "Client does not exist")]
        ELSE LET scope == NewStringSet(Split(scopeWire))
                 created == CreateGrantRequest(db, The(found), responseType,
                                               redirectURI, state, scope)
             IN  IF created.err # ""
                 THEN [db |-> db, resp |-> Response(400, created.err)]
                 ELSE [db |-> created.db,
                       resp |-> [Response(302, "/oauth/login_page") EXCEPT
                           !.request_id = The(created.request).Token]]

finishCodeRequest(db, request) ==
    LET code == RandomToken(db)
        coded == [request EXCEPT !.Code = NullString(code)]
    IN  [db |-> GrantRequestUpdate(Drawn(db), coded),
         resp |-> [Response(302, "redirect with code") EXCEPT
             !.code = code, !.scope = request.ScopeRequested]]

\* finishImplicitRequest, its first write: request.Delete()
finishImplicitDelete(db, request) == GrantRequestDelete(db, request)

\* finishImplicitRequest, its second write: token.Create(), and the redirect
finishImplicitCreate(db1, request) ==
    LET token == [Token |-> RandomToken(db1),
                  ClientUUID |-> request.ClientUUID,
                  AccountUUID |-> request.AccountUUID,
                  Scope |-> request.ScopeRequested]
    IN  IF CreateFails(db1)
        THEN Panic(Drawn(db1))
        ELSE [db |-> AccessTokenCreate(Drawn(db1), token),
              resp |-> [Response(302, "redirect with access_token") EXCEPT
                  !.access = token.Token, !.scope = token.Scope]]

finishImplicitRequest(db, request) ==
    finishImplicitCreate(finishImplicitDelete(db, request), request)

finishRequest(db, request) ==
    IF request.GrantType = "code"
    THEN finishCodeRequest(db, request)
    ELSE finishImplicitRequest(db, request)

\* Login that finishes the request without asking IsApproved
Login_NoApprovalCheck(db, requestID, login, password) ==
    LET found == GetGrantRequest(db, requestID)
        accounts == GetAccountByLogin(login)
    IN  IF found = {}
        THEN [db |-> db, resp |-> Response(404, "Grant request does not exist")]
        ELSE IF accounts = {} \/ ~VerifyPassword(The(accounts), password)
        THEN [db |-> db,
              resp |-> [Response(302, "/oauth/login_page") EXCEPT
                  !.request_id = The(found).Token]]
        ELSE LET request == [The(found) EXCEPT
                     !.AccountUUID = NullString(The(accounts).UUID)]
             IN  finishRequest(GrantRequestUpdate(db, request), request)

Login(db, requestID, login, password) ==
    LET found == GetGrantRequest(db, requestID)
        accounts == GetAccountByLogin(login)
    IN  IF found = {}
        THEN [db |-> db, resp |-> Response(404, "Grant request does not exist")]
        ELSE IF accounts = {}
        THEN [db |-> db,
              resp |-> [Response(302, "/oauth/login_page") EXCEPT
                  !.request_id = The(found).Token]]
        ELSE IF ~VerifyPassword(The(accounts), password)
        THEN [db |-> db,
              resp |-> [Response(302, "/oauth/login_page") EXCEPT
                  !.request_id = The(found).Token]]
        ELSE LET request == [The(found) EXCEPT
                     !.AccountUUID = NullString(The(accounts).UUID)]
                 db1 == GrantRequestUpdate(db, request)
             IN  IF IsApproved(db1, request)
                 THEN finishRequest(db1, request)
                 ELSE [db |-> db1,
                       resp |-> [Response(302, "/oauth/approve_page") EXCEPT
                           !.request_id = request.Token]]

\* Login up to its call of finishCodeRequest or finishImplicitRequest: the
\* database and the request at the call, or no request if Login answers
\* without finishing
LoginBeforeFinish(db, requestID, login, password) ==
    LET found == GetGrantRequest(db, requestID)
        accounts == GetAccountByLogin(login)
    IN  IF found = {} \/ accounts = {}
        THEN [db |-> db, request |-> {}]
        ELSE IF ~VerifyPassword(The(accounts), password)
        THEN [db |-> db, request |-> {}]
        ELSE LET request == [The(found) EXCEPT
                     !.AccountUUID = NullString(The(accounts).UUID)]
                 db1 == GrantRequestUpdate(db, request)
             IN  IF IsApproved(db1, request)
                 THEN [db |-> db1, request |-> {request}]
                 ELSE [db |-> db1, request |-> {}]

\* the scope Approve hands to Client.Approve: only what the whitelist lacks
ApprovedScope_Delta(request, client) ==
    request.ScopeRequested \ client.ScopeWhitelist

\* the scope Approve hands to Client.Approve
ApprovedScope(request, client) == request.ScopeRequested

\* the scope the user has to approve
ScopeRequired(request, client) ==
    request.ScopeRequested \ client.ScopeWhitelist

\* Approve's check of the approved scope left out
ScopeWasApproved_Always(scopeApproved, scopeRequired) == TRUE

ScopeWasApproved(scopeApproved, scopeRequired) ==
    scopeRequired \subseteq scopeApproved

IsAuthenticated(request) == request.AccountUUID.Valid

\* Approve that does not ask whether the request is authenticated
Approve_Unauthenticated(db, requestID, scopeList) ==
    LET found == GetGrantRequest(db, requestID)
    IN  IF found = {}
        THEN [db |-> db, resp |-> Response(404, "Grant request does not exist")]
        ELSE LET request == The(found)
                 client == RequestClient(request)
                 scopeApproved == NewStringSet(scopeList)
                 scopeRequired == ScopeRequired(request, client)
             IN  IF ~ScopeWasApproved(scopeApproved, scopeRequired)
                 THEN [db |-> db,
                       resp |-> Response(401, "Requested scope was not approved")]
                 ELSE LET approved == ClientApprove(db, client,
                                          request.AccountUUID.String,
                                          ApprovedScope(request, client))
                      IN  IF approved.err # ""
                          THEN Panic(db)
                          ELSE IF ~IsApproved(approved.db, request)
                          THEN Panic(approved.db)
                          ELSE finishRequest(approved.db, request)

Approve(db, requestID, scopeList) ==
    LET found == GetGrantRequest(db, requestID)
    IN  IF found = {}
        THEN [db |-> db, resp |-> Response(404, "Grant request does not exist")]
        ELSE LET request == The(found)
                 client == RequestClient(request)
                 scopeApproved == NewStringSet(scopeList)
                 scopeRequired == ScopeRequired(request, client)
             IN  IF ~IsAuthenticated(request)
                 THEN [db |-> db,
                       resp |-> Response(401, "Grant request is not authenticated")]
                 ELSE IF ~ScopeWasApproved(scopeApproved, scopeRequired)
                 THEN [db |-> db,
                       resp |-> Response(401, "Requested scope was not approved")]
                 ELSE LET approved == ClientApprove(db, client,
                                          request.AccountUUID.String,
                                          ApprovedScope(request, client))
                      IN  IF approved.err # ""
                          THEN Panic(db)
                          ELSE IF ~IsApproved(approved.db, request)
                          THEN Panic(approved.db)
                          ELSE finishRequest(approved.db, request)

\* Approve up to its call of finishCodeRequest or finishImplicitRequest: the
\* database and the request at the call, or no request if Approve answers
\* without finishing
ApproveBeforeFinish(db, requestID, scopeList) ==
    LET found == GetGrantRequest(db, requestID)
    IN  IF found = {}
        THEN [db |-> db, request |-> {}]
        ELSE LET request == The(found)
                 client == RequestClient(request)
                 scopeApproved == NewStringSet(scopeList)
                 scopeRequired == ScopeRequired(request, client)
             IN  IF ~IsAuthenticated(request)
                    \/ ~ScopeWasApproved(scopeApproved, scopeRequired)
                 THEN [db |-> db, request |-> {}]
                 ELSE LET approved == ClientApprove(db, client,
                                          request.AccountUUID.String,
                                          ApprovedScope(request, client))
                      IN  IF approved.err # ""
                          THEN [db |-> db, request |-> {}]
                          ELSE IF ~IsApproved(approved.db, request)
                          THEN [db |-> approved.db, request |-> {}]
                          ELSE [db |-> approved.db, request |-> {request}]

----------------------------------------------------------------------------
(* web: the token endpoint *)

GetRefreshToken(db, token) == { t \in db.refreshTokens : t.Token = token }

\* RefreshToken.Delete
RefreshTokenDelete(db, refresh) ==
    [db EXCEPT !.refreshTokens = { t \in @ : t.Token # refresh.Token }]

\* the "Bearer" response of a successful token request; refresh 0 is null
TokenResponse(scope, access, refresh) ==
    [Response(200, "Bearer") EXCEPT
        !.scope = scope, !.access = access, !.refresh = refresh]

InvalidGrantCode == Response(401, "Invalid grant code")

\* PrintErrorJSON(w, r, err, http.StatusInternalServerError) after a Create()
\* that failed
InternalError(db) == [db |-> db, resp |-> Response(500, "create failed")]

\* the client id and secret come from the Authorization header, and from the
\* body only if the header has none
ClientCredentials(authorizeOk, header, body) ==
    IF ~authorizeOk
    THEN [ClientId |-> body.ClientId, ClientSecret |-> body.ClientSecret]
    ELSE header

\* the exchange whose error is not looked at
TokenExchange_IgnoreErr(db, client, request) ==
    IF request.ClientUUID # client.UUID
    THEN [db |-> [GrantRequestDelete(db, request) EXCEPT
                     !.burned = @ \cup {request.Code.String}],
          resp |-> InvalidGrantCode]
    ELSE LET ex == ExchangeCodeForTokens(db, request)
         IN  [db |-> ex.db,
              resp |-> TokenResponse(request.ScopeRequested,
                                     ex.access, ex.refresh)]

\* the exchange that does not delete a request of another client
TokenExchange_NoBurn(db, client, request) ==
    IF request.ClientUUID # client.UUID
    THEN [db |-> [db EXCEPT !.burned = @ \cup {request.Code.String}],
          resp |-> InvalidGrantCode]
    ELSE LET ex == ExchangeCodeForTokens(db, request)
         IN  IF ex.err # ""
             THEN [db |-> db, resp |-> InvalidGrantCode]
             ELSE [db |-> ex.db,
                   resp |-> TokenResponse(request.ScopeRequested,
                                          ex.access, ex.refresh)]

\* the exchange whose response leaves the refresh token out
TokenExchange_NoRefresh(db, client, request) ==
    IF request.ClientUUID # client.UUID
    THEN [db |-> [GrantRequestDelete(db, request) EXCEPT
                     !.burned = @ \cup {request.Code.String}],
          resp |-> InvalidGrantCode]
    ELSE LET ex == ExchangeCodeForTokens(db, request)
         IN  IF ex.err # ""
             THEN [db |-> db, resp |-> InvalidGrantCode]
             ELSE [db |-> ex.db,
                   resp |-> TokenResponse(request.ScopeRequested,
                                          ex.access, 0)]

\* Token, case "authorization_code", once the request is found: the check of
\* the client and the exchange
TokenExchange(db, client, request) ==
    IF request.ClientUUID # client.UUID
    THEN [db |-> [GrantRequestDelete(db, request) EXCEPT
                     !.burned = @ \cup {request.Code.String}],
          resp |-> InvalidGrantCode]
    ELSE LET ex == ExchangeCodeForTokens(db, request)
         IN  IF ex.err # ""
             THEN [db |-> db, resp |-> InvalidGrantCode]
             ELSE [db |-> ex.db,
                   resp |-> TokenResponse(request.ScopeRequested,
                                          ex.access, ex.refresh)]

\* the lookup of the code whose miss is not handled: the handler then uses a
\* nil request and panics
TokenAuthorizationCode_NoMissCheck(db, client, body) ==
    LET found == GetGrantRequestByCode(db, body.Code)
    IN  IF found = {}
        THEN Panic(db)
        ELSE TokenExchange(db, client, The(found))

TokenAuthorizationCode(db, client, body) ==
    LET found == GetGrantRequestByCode(db, body.Code)
    IN  IF found = {}
        THEN [db |-> db, resp |-> InvalidGrantCode]
        ELSE TokenExchange(db, client, The(found))

\* the refresh_token grant with a refresh token that is used up
TokenRefreshToken_Rotate(db, client, body) ==
    LET found == GetRefreshToken(db, body.RefreshToken)
    IN  IF found = {}
        THEN [db |-> db, resp |-> Response(401, "Invalid refresh token")]
        ELSE LET refresh == The(found)
             IN  IF refresh.ClientUUID # client.UUID
                 THEN [db |-> RefreshTokenDelete(db, refresh),
                       resp |-> Response(401, "Invalid refresh token")]
                 ELSE LET access == [Token |-> RandomToken(db),
                                     AccountUUID |-> NullString(refresh.AccountUUID),
                                     ClientUUID |-> refresh.ClientUUID,
                                     Scope |-> refresh.Scope]
                      IN  [db |-> RefreshTokenDelete(
                                      AccessTokenCreate(Drawn(db), access),
                                      refresh),
                           resp |-> TokenResponse(refresh.Scope, access.Token, 0)]

\* the refresh_token grant that keeps the refresh token another client
\* presented
TokenRefreshToken_NoBurn(db, client, body) ==
    LET found == GetRefreshToken(db, body.RefreshToken)
    IN  IF found = {}
        THEN [db |-> db, resp |-> Response(401, "Invalid refresh token")]
        ELSE LET refresh == The(found)
             IN  IF refresh.ClientUUID # client.UUID
                 THEN [db |-> db,
                       resp |-> Response(401, "Invalid refresh token")]
                 ELSE LET access == [Token |-> RandomToken(db),
                                     AccountUUID |-> NullString(refresh.AccountUUID),
                                     ClientUUID |-> refresh.ClientUUID,
                                     Scope |-> refresh.Scope]
                      IN  [db |-> AccessTokenCreate(Drawn(db), access),
                           resp |-> TokenResponse(refresh.Scope, access.Token, 0)]

TokenRefreshToken(db, client, body) ==
    LET found == GetRefreshToken(db, body.RefreshToken)
    IN  IF found = {}
        THEN [db |-> db, resp |-> Response(401, "Invalid refresh token")]
        ELSE LET refresh == The(found)
             IN  IF refresh.ClientUUID # client.UUID
                 THEN [db |-> RefreshTokenDelete(db, refresh),
                       resp |-> Response(401, "Invalid refresh token")]
                 ELSE LET access == [Token |-> RandomToken(db),
                                     AccountUUID |-> NullString(refresh.AccountUUID),
                                     ClientUUID |-> refresh.ClientUUID,
                                     Scope |-> refresh.Scope]
                      IN  IF CreateFails(db)
                          THEN InternalError(Drawn(db))
                          ELSE [db |-> AccessTokenCreate(Drawn(db), access),
                                resp |-> TokenResponse(refresh.Scope,
                                                       access.Token, 0)]

\* the password grant checked against the catalog instead of the whitelist
ScopeAllowed_Catalog(client, scope) == CheckScope(scope)

\* the scope check of the password and client_credentials grants
ScopeAllowed(client, scope) ==
    ~(Cardinality(scope) = 0 \/ ~(scope \subseteq client.ScopeWhitelist))

\* the password grant that tells a wrong password from an unknown login
TokenPassword_TellsWrongPassword(db, client, body) ==
    LET accounts == GetAccountByLogin(body.Username)
    IN  IF accounts = {}
        THEN [db |-> db, resp |-> Response(401, "Wrong username")]
        ELSE IF ~VerifyPassword(The(accounts), body.Password)
        THEN [db |-> db, resp |-> Response(401, "Wrong password")]
        ELSE LET scope == NewStringSet(Split(body.Scope))
             IN  IF ~ScopeAllowed(client, scope)
                 THEN [db |-> db, resp |-> Response(401, "Invalid scope")]
                 ELSE LET access == [Token |-> RandomToken(db),
                                     AccountUUID |-> NullString(The(accounts).UUID),
                                     ClientUUID |-> client.UUID,
                                     Scope |-> scope]
                      IN  [db |-> AccessTokenCreate(Drawn(db), access),
                           resp |-> TokenResponse(scope, access.Token, 0)]

TokenPassword(db, client, body) ==
    LET accounts == GetAccountByLogin(body.Username)
    IN  IF accounts = {}
        THEN [db |-> db, resp |-> Response(401, "Wrong username or password")]
        ELSE IF ~VerifyPassword(The(accounts), body.Password)
        THEN [db |-> db, resp |-> Response(401, "Wrong username or password")]
        ELSE LET scope == NewStringSet(Split(body.Scope))
             IN  IF ~ScopeAllowed(client, scope)
                 THEN [db |-> db, resp |-> Response(401, "Invalid scope")]
                 ELSE LET access == [Token |-> RandomToken(db),
                                     AccountUUID |-> NullString(The(accounts).UUID),
                                     ClientUUID |-> client.UUID,
                                     Scope |-> scope]
                      IN  IF CreateFails(db)
                          THEN InternalError(Drawn(db))
                          ELSE [db |-> AccessTokenCreate(Drawn(db), access),
                                resp |-> TokenResponse(scope, access.Token, 0)]

\* the client_credentials grant without its check of the scope
TokenClientCredentials_AnyScope(db, client, body) ==
    LET scope == NewStringSet(Split(body.Scope))
        access == [Token |-> RandomToken(db),
                   AccountUUID |-> NoAccount,
                   ClientUUID |-> client.UUID,
                   Scope |-> scope]
    IN  [db |-> AccessTokenCreate(Drawn(db), access),
         resp |-> TokenResponse(scope, access.Token, 0)]

TokenClientCredentials(db, client, body) ==
    LET scope == NewStringSet(Split(body.Scope))
    IN  IF ~ScopeAllowed(client, scope)
        THEN [db |-> db, resp |-> Response(401, "Invalid scope")]
        ELSE LET access == [Token |-> RandomToken(db),
                            AccountUUID |-> NoAccount,
                            ClientUUID |-> client.UUID,
                            Scope |-> scope]
             IN  IF CreateFails(db)
                 THEN InternalError(Drawn(db))
                 ELSE [db |-> AccessTokenCreate(Drawn(db), access),
                       resp |-> TokenResponse(scope, access.Token, 0)]

WrongClient == Response(401, "Wrong client id or client secret")

\* the check of the client that does not compare the secret
TokenClient_AnySecret(authorizeOk, header, body) ==
    LET cred == ClientCredentials(authorizeOk, header, body)
    IN  GetClientByName(cred.ClientId)

\* Token, up to the switch: the authenticated client, if any
TokenClient(authorizeOk, header, body) ==
    LET cred == ClientCredentials(authorizeOk, header, body)
    IN  { c \in GetClientByName(cred.ClientId) : cred.ClientSecret = c.Secret }

Token(db, authorizeOk, header, body) ==
    LET clients == TokenClient(authorizeOk, header, body)
    IN  IF clients = {}
        THEN [db |-> db, resp |-> WrongClient]
        ELSE LET client == The(clients)
             IN  CASE body.GrantType = "authorization_code" ->
                        TokenAuthorizationCode(db, client, body)
                   [] body.GrantType = "refresh_token" ->
                        TokenRefreshToken(db, client, body)
                   [] body.GrantType = "password" ->
                        TokenPassword(db, client, body)
                   [] body.GrantType = "client_credentials" ->
                        TokenClientCredentials(db, client, body)
                   [] OTHER ->
                        [db |-> db,
                         resp |-> Response(400, "Unsupported grant type")]

----------------------------------------------------------------------------
(* The inputs of the requests *)

NoCred == [ClientId |-> "", ClientSecret |-> ""]

Creds ==
    { [ClientId |-> "c1", ClientSecret |-> "s1"],
      [ClientId |-> "c2", ClientSecret |-> "s2"],
      [ClientId |-> "c1", ClientSecret |-> "s2"],
      [ClientId |-> "cX", ClientSecret |-> "s1"] }

\* r.BasicAuth() gives empty strings when the header has no credentials; a
\* request with the header may name another client in its body
TokenAuth ==
    { [ok |-> FALSE, header |-> NoCred, body |-> c] : c \in Creds }
    \cup { [ok |-> TRUE, header |-> c,
            body |-> [ClientId |-> "c2", ClientSecret |-> "s2"]] : c \in Creds }

ScopeWires ==
    { <<>>, <<"read">>, <<"profile">>, <<"read", "profile">>, <<"bogus">>,
      <<"read", "write">> }

Logins == {"alice", "bob", "mallory"}
Passwords == {"pa", "pb"}
ClientNames == {"c1", "c2", "cX"}
ResponseTypes == {"code", "token", "id_token"}
RedirectURIs == {"https://a/cb", "https://b/cb", "https://a/cb/x"}
States == {"xyz"}
Tokens == 1 .. (MaxRandom + 1)

Body(auth, grantType) ==
    [GrantType |-> grantType,
     ClientId |-> auth.body.ClientId, ClientSecret |-> auth.body.ClientSecret,
     Scope |-> <<>>, Code |-> 0, RefreshToken |-> 0,
     Username |-> "", Password |-> ""]

CodeBody(auth, code) ==
    [Body(auth, "authorization_code") EXCEPT !.Code = code]

RefreshBody(auth, token) ==
    [Body(auth, "refresh_token") EXCEPT !.RefreshToken = token]

PasswordBody(auth, login, password, wire) ==
    [Body(auth, "password") EXCEPT
        !.Username = login, !.Password = password, !.Scope = wire]

CredentialsBody(auth, wire) ==
    [Body(auth, "client_credentials") EXCEPT !.Scope = wire]

----------------------------------------------------------------------------
(* The specification of the handlers, one request at a time *)

DB ==
    [grantRequests |-> grantRequests, approvals |-> approvals,
     accessTokens |-> accessTokens, refreshTokens |-> refreshTokens,
     rnd |-> rnd, exchanged |-> exchanged, burned |-> burned,
     createFails |-> FALSE]

Store(db) ==
    /\ db.rnd <= MaxRandom
    /\ grantRequests' = db.grantRequests
    /\ approvals' = db.approvals
    /\ accessTokens' = db.accessTokens
    /\ refreshTokens' = db.refreshTokens
    /\ rnd' = db.rnd
    /\ exchanged' = db.exchanged
    /\ burned' = db.burned
    /\ UNCHANGED <<expired, tokens, serving, mutex>>

Serve(out) ==
    /\ Store(out.db)
    /\ UNCHANGED workers

Idle == [pc |-> "idle", client |-> {}, code |-> 0, request |-> {},
         resp |-> Response(0, "")]

\* the identities of the requests served by oauth.ServeHTTP
Requests == 1 .. NumRequests

\* a request identity that oauth.ServeHTTP is not serving
NotServing == [pc |-> "idle", o |-> {}, header |-> {}, info |-> {},
               resp |-> Response(0, ""), seen |-> {}]

Init ==
    /\ grantRequests = {}
    /\ approvals = {}
    /\ accessTokens = {}
    /\ refreshTokens = {}
    /\ rnd = 0
    /\ exchanged = {}
    /\ burned = {}
    /\ workers = [p \in 1 .. NumWorkers |-> Idle]
    /\ expired = {}
    /\ tokens = [r \in Requests |-> {}]
    /\ serving = [r \in Requests |-> NotServing]
    /\ mutex = 0

DoAuthorize ==
    \E c \in ClientNames, t \in ResponseTypes, u \in RedirectURIs,
       s \in States, w \in ScopeWires :
        /\ Cardinality(grantRequests) < MaxRequests
        /\ Serve(Authorize(DB, c, t, u, s, w))

DoLogin ==
    \E id \in Tokens, l \in Logins, p \in Passwords :
        Serve(Login(DB, id, l, p))

DoApprove ==
    \E id \in Tokens, w \in ScopeWires :
        Serve(Approve(DB, id, w))

DoTokenAuthorizationCode ==
    \E a \in TokenAuth, code \in Tokens :
        Serve(Token(DB, a.ok, a.header, CodeBody(a, code)))

DoTokenPassword ==
    \E a \in TokenAuth, l \in Logins, p \in Passwords, w \in ScopeWires :
        Serve(Token(DB, a.ok, a.header, PasswordBody(a, l, p, w)))

DoTokenClientCredentials ==
    \E a \in TokenAuth, w \in ScopeWires :
        Serve(Token(DB, a.ok, a.header, CredentialsBody(a, w)))

DoTokenUnsupported ==
    \E a \in TokenAuth :
        Serve(Token(DB, a.ok, a.header, Body(a, "implicit")))

\* the authorization code flow: a grant request is created, authenticated,
\* approved and exchanged
Next ==
    \/ DoAuthorize
    \/ DoLogin
    \/ DoApprove
    \/ DoTokenAuthorizationCode

Spec == Init /\ [][Next]_vars

\* the grants of the token endpoint that need no grant request
NextGrants ==
    \/ DoTokenPassword
    \/ DoTokenClientCredentials
    \/ DoTokenUnsupported

SpecGrants == Init /\ [][NextGrants]_vars

\* Token with grant_type refresh_token; the exchanges of refresh tokens may
\* draw MaxRefreshes tokens more than the flow that issued the refresh token
DoTokenRefreshToken ==
    \E a \in TokenAuth, t \in Tokens :
        LET out == Token(DB, a.ok, a.header, RefreshBody(a, t))
        IN  /\ out.db.rnd <= MaxRandom + MaxRefreshes
            /\ grantRequests' = out.db.grantRequests
            /\ approvals' = out.db.approvals
            /\ accessTokens' = out.db.accessTokens
            /\ refreshTokens' = out.db.refreshTokens
            /\ rnd' = out.db.rnd
            /\ exchanged' = out.db.exchanged
            /\ burned' = out.db.burned
            /\ UNCHANGED <<workers, expired, tokens, serving, mutex>>

\* the authorization code flow followed by exchanges of its refresh token
NextRefresh ==
    \/ Next
    \/ DoTokenRefreshToken

SpecRefresh == Init /\ [][NextRefresh]_vars

\* the approval ledger on its own: Client.Approve called with any client,
\* account and scope
AccountUUIDs == { a.UUID : a \in Accounts }

ScopeSets == SUBSET {"read", "profile", "bogus"}

DoClientApprove ==
    \E c \in Clients, a \in AccountUUIDs, s \in ScopeSets :
        /\ Store(ClientApprove(DB, c, a, s).db)
        /\ UNCHANGED workers

NextLedger == DoClientApprove

SpecLedger == Init /\ [][NextLedger]_vars

----------------------------------------------------------------------------
(* web: the handler of bearer tokens, oauth.ServeHTTP *)

\* a lookup that does not look at the expiry
GetAccessToken_IgnoresExpiry(db, exp, token) ==
    { t \in db.accessTokens : t.Token = token }

\* data.GetAccessToken: the access token of the string, unless it has expired
GetAccessToken(db, exp, token) ==
    { t \in db.accessTokens : t.Token = token /\ t.Token \notin exp }

\* data.GetAccount
GetAccount(uuid) == { a \in Accounts : a.UUID = uuid }

\* Validate: information about the access token of the URL, as JSON
Validate(db, exp, tokenStr) ==
    LET found == GetAccessToken(db, exp, tokenStr)
    IN  IF found = {}
        THEN Response(404, "The requested token does not exist")
        ELSE LET token == The(found)
                 account == IF token.AccountUUID.Valid
                            THEN GetAccount(token.AccountUUID.String)
                            ELSE {}
             IN  IF token.AccountUUID.Valid /\ account = {}
                 THEN Response(500,
                    "Unable to find account associated with the request")
                 ELSE [status |-> 200, jti |-> token.Token,
                       iss |-> "gin-auth",
                       login |-> { a.Login : a \in account },
                       scope |-> token.Scope]

\* An Authorization header: a scheme word, the number of spaces after it, the
\* token string (0: none) and the number of spaces after that; no header is
\* the empty word
Header(scheme, spaces, token, trailing) ==
    [scheme |-> scheme, spaces |-> spaces, token |-> token,
     trailing |-> trailing]

NoHeader == Header("", 0, 0, 0)

\* tokenStr != "" && strings.HasPrefix(tokenStr, "Bearer ")
HasBearerPrefix(header) == header.scheme = "Bearer" /\ header.spaces >= 1

\* strings.Trim(tokenStr[6:], " "): the token string without the spaces
\* around it
BearerToken(header) == header.token

\* OAuthHandler(scope...) and OAuthHandlerPermissive()
OAuthHandlers ==
    { [Permissive |-> FALSE, scope |-> sc] :
          sc \in {{}, {"read"}, {"profile"}, {"read", "profile"}} }
    \cup { [Permissive |-> TRUE, scope |-> {}] }

Unauthorized(msg) ==
    [invoke |-> FALSE, info |-> {}, resp |-> Response(401, msg)]

Invoke(info) == [invoke |-> TRUE, info |-> info, resp |-> Response(0, "")]

\* oauth.ServeHTTP with the intersection left out
ServeHTTPBegin_NoIntersect(db, exp, o, header) ==
    IF HasBearerPrefix(header)
    THEN LET found == GetAccessToken(db, exp, BearerToken(header))
         IN  IF found # {}
             THEN LET token == The(found)
                  IN  IF ~o.Permissive
                         /\ Cardinality(token.Scope \cap o.scope) < 1
                      THEN Unauthorized("Insufficient scope")
                      ELSE Invoke({[Match |-> token.Scope, Token |-> token]})
             ELSE IF ~o.Permissive
                  THEN Unauthorized("Invalid bearer token")
                  ELSE Invoke({})
    ELSE IF ~o.Permissive
         THEN Unauthorized("No bearer token")
         ELSE Invoke({})

\* oauth.ServeHTTP without the check of the matching scope
ServeHTTPBegin_AnyScope(db, exp, o, header) ==
    IF HasBearerPrefix(header)
    THEN LET found == GetAccessToken(db, exp, BearerToken(header))
         IN  IF found # {}
             THEN LET token == The(found)
                      match == IF ~o.Permissive
                               THEN token.Scope \cap o.scope
                               ELSE token.Scope
                  IN  Invoke({[Match |-> match, Token |-> token]})
             ELSE IF ~o.Permissive
                  THEN Unauthorized("Invalid bearer token")
                  ELSE Invoke({})
    ELSE IF ~o.Permissive
         THEN Unauthorized("No bearer token")
         ELSE Invoke({})

\* oauth.ServeHTTP up to the call of the wrapped handler: whether the handler
\* is invoked, the OAuthInfo put into tokens.store (none: {}), and the answer
\* of a rejection
ServeHTTPBegin(db, exp, o, header) ==
    IF HasBearerPrefix(header)
    THEN LET found == GetAccessToken(db, exp, BearerToken(header))
         IN  IF found # {}
             THEN LET token == The(found)
                      match == IF ~o.Permissive
                               THEN token.Scope \cap o.scope
                               ELSE token.Scope
                  IN  IF ~o.Permissive /\ Cardinality(match) < 1
                      THEN Unauthorized("Insufficient scope")
                      ELSE Invoke({[Match |-> match, Token |-> token]})
             ELSE IF ~o.Permissive
                  THEN Unauthorized("Invalid bearer token")
                  ELSE Invoke({})
    ELSE IF ~o.Permissive
         THEN Unauthorized("No bearer token")
         ELSE Invoke({})

\* OAuthToken(r): the entry of tokens.store for the request, if any
OAuthToken(store, r) == store[r]

\* the deferred delete that does not run when the wrapped handler panics
ServeHTTPReturn_NotOnPanic(store, r, registered, panicked) ==
    IF registered /\ ~panicked THEN [store EXCEPT ![r] = {}] ELSE store

\* the return of oauth.ServeHTTP after the wrapped handler: the deferred
\* delete runs if it was registered, also when the wrapped handler panicked
ServeHTTPReturn(store, r, registered, panicked) ==
    IF registered THEN [store EXCEPT ![r] = {}] ELSE store

\* the Authorization headers of the requests
Headers ==
    { NoHeader, Header("Bearer", 0, 0, 0), Header("Basic", 1, 1, 0) }
    \cup { Header("Bearer", 1, t, 0) : t \in 0 .. MaxTokens + 1 }
    \cup { Header("Bearer", 2, 1, 1) }

\* oauth.ServeHTTP is called with a request; the identity of a request that
\* has been answered may be used by a later request
ServeHTTP(r) ==
    /\ serving[r].pc \in {"idle", "done"}
    /\ \E o \in OAuthHandlers, h \in Headers :
        LET b == ServeHTTPBegin(DB, expired, o, h)
        IN  IF ~b.invoke
            THEN /\ serving' = [serving EXCEPT ![r] =
                        [NotServing EXCEPT !.pc = "done", !.resp = b.resp]]
                 /\ UNCHANGED tokens
            ELSE /\ serving' = [serving EXCEPT ![r] =
                        [NotServing EXCEPT
                             !.pc = "handler", !.o = {o}, !.header = {h},
                             !.info = b.info, !.resp = b.resp]]
                 /\ tokens' = IF b.info # {}
                              THEN [tokens EXCEPT ![r] = b.info]
                              ELSE tokens
    /\ UNCHANGED <<grantRequests, approvals, accessTokens, refreshTokens,
                   rnd, exchanged, burned, workers, expired, mutex>>

\* the wrapped handler returns or panics, and oauth.ServeHTTP returns
HandlerReturns(r) ==
    /\ serving[r].pc = "handler"
    /\ \E panicked \in BOOLEAN :
        /\ tokens' = ServeHTTPReturn(tokens, r, serving[r].info # {},
                                     panicked)
        /\ serving' = [serving EXCEPT ![r] =
               [NotServing EXCEPT
                    !.pc = "done", !.info = serving[r].info,
                    !.resp = IF panicked THEN Response(500, "panic")
                             ELSE Response(200, "handled")]]
    /\ UNCHANGED <<grantRequests, approvals, accessTokens, refreshTokens,
                   rnd, exchanged, burned, workers, expired, mutex>>

\* time passes the expiry of an access token
Expire ==
    /\ \E t \in accessTokens :
        /\ t.Token \notin expired
        /\ expired' = expired \cup {t.Token}
    /\ UNCHANGED <<grantRequests, approvals, accessTokens, refreshTokens,
                   rnd, exchanged, burned, workers, tokens, serving, mutex>>

\* requests with bearer tokens, while the client_credentials grant creates
\* access tokens and access tokens expire
NextBearer ==
    \/ Cardinality(accessTokens) < MaxTokens /\ DoTokenClientCredentials
    \/ Expire
    \/ \E r \in Requests : ServeHTTP(r)
    \/ \E r \in Requests : HandlerReturns(r)

SpecBearer == Init /\ [][NextBearer]_vars

----------------------------------------------------------------------------
(* data: access tokens created, looked up, expiring and deleted, as in the  *)
(* tests of the data package                                                *)

\* the access tokens the tests create: with an account and without one
FreshTokens(db) ==
    { [Token |-> RandomToken(db), ClientUUID |-> "u1",
       AccountUUID |-> a, Scope |-> sc] :
          a \in {NoAccount, NullString("ua")},
          sc \in {{"read"}, {"read", "write"}} }

\* fresh.Create()
DoAccessTokenCreate ==
    \E token \in FreshTokens(DB) :
        Serve([db |-> AccessTokenCreate(Drawn(DB), token)])

\* tok.Delete()
DoAccessTokenDelete ==
    \E token \in accessTokens :
        Serve([db |-> AccessTokenDelete(DB, token)])

NextTokens ==
    \/ DoAccessTokenCreate
    \/ DoAccessTokenDelete
    \/ Expire

SpecTokens == Init /\ [][NextTokens]_vars

----------------------------------------------------------------------------
(* web: tokens.store and its mutex, with oauth.ServeHTTP and OAuthToken     *)
(* split at the calls of tokens.Lock()                                      *)

\* the positions of a request between tokens.Lock() and tokens.Unlock()
Critical == {"insert", "lookup", "delete"}

\* the position after tokens.Lock() has returned
Locked(pc) ==
    CASE pc = "lockInsert" -> "insert"
      [] pc = "lockLookup" -> "lookup"
      [] pc = "lockDelete" -> "delete"

At(r, pc, info, seen, resp) ==
    serving' = [serving EXCEPT ![r] =
        [NotServing EXCEPT !.pc = pc, !.info = info, !.seen = seen,
                           !.resp = resp]]

\* a Lock() that does not wait for the holder of the mutex
CanLock_NoWait(m) == TRUE

\* sync.Mutex: Lock() returns when no one holds the mutex
CanLock(m) == m = 0

\* oauth.ServeHTTP up to the insertion into tokens.store
ServeHTTPResolve(r) ==
    /\ serving[r].pc \in {"idle", "done"}
    /\ \E o \in OAuthHandlers, h \in Headers :
        LET b == ServeHTTPBegin(DB, expired, o, h)
        IN  IF ~b.invoke THEN At(r, "done", {}, {}, b.resp)
            ELSE IF b.info # {} THEN At(r, "lockInsert", b.info, {}, b.resp)
            ELSE At(r, "handler", {}, {}, b.resp)
    /\ UNCHANGED <<grantRequests, approvals, accessTokens, refreshTokens,
                   rnd, exchanged, burned, workers, expired, tokens, mutex>>

\* tokens.Lock() returns to the request
TokensLock(r) ==
    /\ serving[r].pc \in {"lockInsert", "lockLookup", "lockDelete"}
    /\ CanLock(mutex)
    /\ mutex' = r
    /\ serving' = [serving EXCEPT ![r].pc = Locked(serving[r].pc)]
    /\ UNCHANGED <<grantRequests, approvals, accessTokens, refreshTokens,
                   rnd, exchanged, burned, workers, expired, tokens>>

\* tokens.store[r] = &OAuthInfo{...}; tokens.Unlock(); the deferred delete is
\* registered and the wrapped handler is called
TokensInsert(r) ==
    /\ serving[r].pc = "insert"
    /\ tokens' = [tokens EXCEPT ![r] = serving[r].info]
    /\ mutex' = 0
    /\ serving' = [serving EXCEPT ![r].pc = "handler"]
    /\ UNCHANGED <<grantRequests, approvals, accessTokens, refreshTokens,
                   rnd, exchanged, burned, workers, expired>>

\* the wrapped handler calls OAuthToken(r)
HandlerCallsOAuthToken(r) ==
    /\ serving[r].pc = "handler"
    /\ serving' = [serving EXCEPT ![r].pc = "lockLookup"]
    /\ UNCHANGED <<grantRequests, approvals, accessTokens, refreshTokens,
                   rnd, exchanged, burned, workers, expired, tokens, mutex>>

\* tok, ok := tokens.store[r]; tokens.Unlock(); return tok, ok
TokensLookup(r) ==
    /\ serving[r].pc = "lookup"
    /\ mutex' = 0
    /\ serving' = [serving EXCEPT ![r].pc = "handler",
                                  ![r].seen = OAuthToken(tokens, r)]
    /\ UNCHANGED <<grantRequests, approvals, accessTokens, refreshTokens,
                   rnd, exchanged, burned, workers, expired, tokens>>

\* the wrapped handler returns or panics; the deferred function runs if it
\* was registered
HandlerEnds(r) ==
    /\ serving[r].pc = "handler"
    /\ \E panicked \in BOOLEAN :
        LET resp == IF panicked THEN Response(500, "panic")
                    ELSE Response(200, "handled")
        IN  At(r, IF serving[r].info # {} THEN "lockDelete" ELSE "done",
               serving[r].info, serving[r].seen, resp)
    /\ UNCHANGED <<grantRequests, approvals, accessTokens, refreshTokens,
                   rnd, exchanged, burned, workers, expired, tokens, mutex>>

\* delete(tokens.store, r); tokens.Unlock(); oauth.ServeHTTP has returned
TokensDelete(r) ==
    /\ serving[r].pc = "delete"
    /\ tokens' = [tokens EXCEPT ![r] = {}]
    /\ mutex' = 0
    /\ serving' = [serving EXCEPT ![r].pc = "done"]
    /\ UNCHANGED <<grantRequests, approvals, accessTokens, refreshTokens,
                   rnd, exchanged, burned, workers, expired>>

NextStore ==
    \/ Cardinality(accessTokens) < MaxTokens /\ DoTokenClientCredentials
    \/ \E r \in Requests : ServeHTTPResolve(r)
    \/ \E r \in Requests : TokensLock(r)
    \/ \E r \in Requests : TokensInsert(r)
    \/ \E r \in Requests : HandlerCallsOAuthToken(r)
    \/ \E r \in Requests : TokensLookup(r)
    \/ \E r \in Requests : HandlerEnds(r)
    \/ \E r \in Requests : TokensDelete(r)

SpecStore == Init /\ [][NextStore]_vars

----------------------------------------------------------------------------
(* Token requests processed concurrently *)

(* A worker runs Token for an authorization_code request.  It reads the    *)
(* database once, in GetGrantRequestByCode, and writes it once, in         *)
(* request.Delete or request.ExchangeCodeForTokens; other requests run     *)
(* between the two.  The grant request handlers run as single steps.       *)

Procs == 1 .. NumWorkers

Answer(p, client, code, request, resp) ==
    workers' = [workers EXCEPT ![p] =
        [pc |-> "done", client |-> client, code |-> code,
         request |-> request, resp |-> resp]]

\* Token up to GetGrantRequestByCode.  A request that fails before it has
\* read a grant request is answered at once and takes no further step.
WorkerLookup(p) ==
    /\ workers[p].pc = "idle"
    /\ \E a \in TokenAuth, code \in Tokens :
        LET clients == TokenClient(a.ok, a.header, CodeBody(a, code))
            found == GetGrantRequestByCode(DB, code)
        IN  IF clients = {} \/ found = {}
            THEN UNCHANGED workers
            ELSE workers' = [workers EXCEPT ![p] =
                     [pc |-> "found", client |-> clients, code |-> code,
                      request |-> found, resp |-> Response(0, "")]]
    /\ UNCHANGED <<grantRequests, approvals, accessTokens, refreshTokens,
                   rnd, exchanged, burned, expired, tokens, serving, mutex>>

\* Token from the check of the client to the response
WorkerExchange(p) ==
    /\ workers[p].pc = "found"
    /\ LET out == TokenExchange(DB, The(workers[p].client),
                                The(workers[p].request))
       IN  /\ Store(out.db)
           /\ Answer(p, workers[p].client, workers[p].code,
                     workers[p].request, out.resp)

NextConc ==
    \/ DoAuthorize
    \/ DoLogin
    \/ DoApprove
    \/ \E p \in Procs : WorkerLookup(p)
    \/ \E p \in Procs : WorkerExchange(p)

SpecConc == Init /\ [][NextConc]_vars

----------------------------------------------------------------------------
(* Client.Approve calls processed concurrently: the read of the approval    *)
(* and the write of the row are two operations of the database              *)

Approving(p, pc, client, accountUUID, scope, found, err) ==
    workers' = [workers EXCEPT ![p] =
        [pc |-> pc, client |-> client, account |-> accountUUID,
         scope |-> scope, found |-> found, err |-> err]]

\* Client.Approve up to ApprovalForAccount
ApproveRead(p) ==
    /\ workers[p].pc \in {"idle", "returned"}
    /\ \E c \in Clients,
          s \in {{"read"}, {"profile"}, {"email"}, {"bogus"}} :
        IF ~CheckScope(s)
        THEN Approving(p, "returned", {c}, "ua", s, {}, "Invalid scope")
        ELSE Approving(p, "read", {c}, "ua", s,
                       ApprovalForAccount(DB, c, "ua"), "")
    /\ Store(DB)

\* Client.Approve from the test of the approval it has read to its return:
\* approval.Update() with the union, or approval.Create(), which fails if the
\* pair of client and account has a row by now
ApproveWrite(p) ==
    /\ workers[p].pc = "read"
    /\ LET w == workers[p]
           client == The(w.client)
       IN  IF w.found # {}
           THEN /\ Approving(p, "returned", w.client, w.account, w.scope,
                             w.found, "")
                /\ IF ~(w.scope \subseteq The(w.found).Scope)
                   THEN Store(ApprovalUpdate(DB,
                            [The(w.found) EXCEPT !.Scope = @ \cup w.scope]))
                   ELSE Store(DB)
           ELSE IF ApprovalForAccount(DB, client, w.account) # {}
           THEN /\ Approving(p, "returned", w.client, w.account, w.scope,
                             w.found, "duplicate key")
                /\ Store(DB)
           ELSE /\ Approving(p, "returned", w.client, w.account, w.scope,
                             w.found, "")
                /\ Store(ApprovalCreate(DB,
                       [ClientUUID |-> client.UUID,
                        AccountUUID |-> w.account,
                        Scope |-> w.scope]))

NextApprove ==
    \/ \E p \in Procs : ApproveRead(p)
    \/ \E p \in Procs : ApproveWrite(p)

SpecApprove == Init /\ [][NextApprove]_vars

----------------------------------------------------------------------------
(* Login and Approve requests processed concurrently *)

(* A worker runs Login or Approve.  The handler's reads and writes up to    *)
(* the call of finishCodeRequest or finishImplicitRequest are one step;     *)
(* finishImplicitRequest then writes the database twice, in                 *)
(* request.Delete() and in token.Create(), with no transaction around the   *)
(* two, and other requests run between them.                                *)

Finishing(p, pc, request) ==
    workers' = [workers EXCEPT ![p] =
        [pc |-> pc, client |-> {}, code |-> 0, request |-> request,
         resp |-> Response(0, "")]]

\* Login up to the finalization; a Login that does not finish is answered
WorkerLogin(p) ==
    /\ workers[p].pc = "idle"
    /\ \E id \in Tokens, l \in Logins, pw \in Passwords :
        LET pre == LoginBeforeFinish(DB, id, l, pw)
        IN  IF pre.request = {}
            THEN Store(Login(DB, id, l, pw).db) /\ UNCHANGED workers
            ELSE Store(pre.db) /\ Finishing(p, "finish", pre.request)

\* Approve up to the finalization; an Approve that does not finish is answered
WorkerApprove(p) ==
    /\ workers[p].pc = "idle"
    /\ \E id \in Tokens, w \in ScopeWires :
        LET pre == ApproveBeforeFinish(DB, id, w)
        IN  IF pre.request = {}
            THEN Store(Approve(DB, id, w).db) /\ UNCHANGED workers
            ELSE Store(pre.db) /\ Finishing(p, "finish", pre.request)

\* finishCodeRequest: one write, request.Update()
WorkerFinishCode(p) ==
    /\ workers[p].pc = "finish"
    /\ The(workers[p].request).GrantType = "code"
    /\ Store(finishCodeRequest(DB, The(workers[p].request)).db)
    /\ Finishing(p, "done", workers[p].request)

\* finishImplicitRequest up to request.Delete()
WorkerDelete(p) ==
    /\ workers[p].pc = "finish"
    /\ The(workers[p].request).GrantType # "code"
    /\ Store(finishImplicitDelete(DB, The(workers[p].request)))
    /\ Finishing(p, "deleted", workers[p].request)

\* finishImplicitRequest from token.Create() to the redirect
WorkerCreate(p) ==
    /\ workers[p].pc = "deleted"
    /\ Store(finishImplicitCreate(DB, The(workers[p].request)).db)
    /\ Finishing(p, "done", workers[p].request)

NextFinish ==
    \/ DoAuthorize
    \/ \E p \in Procs : WorkerLogin(p)
    \/ \E p \in Procs : WorkerApprove(p)
    \/ \E p \in Procs : WorkerFinishCode(p)
    \/ \E p \in Procs : WorkerDelete(p)
    \/ \E p \in Procs : WorkerCreate(p)

SpecFinish == Init /\ [][NextFinish]_vars

----------------------------------------------------------------------------
(* Properties of the authorization code exchange *)

\* the client a token request authenticates as, if any
AuthClient(a) == TokenClient(a.ok, a.header, Body(a, ""))

\* the token request of a.ok, a.header with the given code
Exchange(a, code) == Token(DB, a.ok, a.header, CodeBody(a, code))

NothingMinted(out) ==
    /\ out.db.accessTokens = accessTokens
    /\ out.db.refreshTokens = refreshTokens

\* C1: once a code has been exchanged for tokens, every later
\* authorization_code request that presents it, whatever client it
\* authenticates as, is answered with 401 "Invalid grant code" and creates
\* neither an access token nor a refresh token.
C1_RedeemedCodeIsRejected ==
    \A e \in exchanged, a \in TokenAuth :
        LET out == Exchange(a, e.Code)
        IN  /\ NothingMinted(out)
            /\ out.resp.status = 401
            /\ AuthClient(a) # {} =>
                    /\ out.resp.status = 401
                    /\ out.resp.msg = "Invalid grant code"
                    /\ out.resp.access = 0
                    /\ out.resp.refresh = 0

\* a code has been exchanged, and its tokens are stored
C1_Witness ==
    \E e \in exchanged :
        /\ \E t \in accessTokens : t.Token = e.Access
        /\ GetGrantRequestByCode(DB, e.Code) = {}

\* C3: an exchange by a client that does not own the request of the code
\* deletes the request, answers as for a code that does not exist and mints
\* nothing; a code burned this way is rejected ever after, also for its owner.
C3_MismatchBurnsTheRequest ==
    /\ \A r \in grantRequests, a \in TokenAuth :
            (r.Code.Valid /\ AuthClient(a) # {}
                /\ The(AuthClient(a)).UUID # r.ClientUUID) =>
                LET out == Exchange(a, r.Code.String)
                IN  /\ out.resp.status = 401
                    /\ out.resp.msg = "Invalid grant code"
                    /\ out.resp = Exchange(a, 0).resp
                    /\ NothingMinted(out)
                    /\ GetGrantRequest(out.db, r.Token) = {}
                    /\ GetGrantRequestByCode(out.db, r.Code.String) = {}
    /\ \A code \in burned, a \in TokenAuth :
            AuthClient(a) # {} =>
                LET out == Exchange(a, code)
                IN  /\ out.resp.status = 401
                    /\ out.resp.msg = "Invalid grant code"
                    /\ NothingMinted(out)

\* a request was deleted when another client presented its code
C3_Witness ==
    /\ burned # {}
    /\ exchanged = {}
    /\ \A code \in burned : GetGrantRequestByCode(DB, code) = {}

\* C4: an exchange by the client that owns the request of the code creates
\* exactly one access token and one refresh token, both with the request's
\* scope, account and client, returns both and deletes the request.
C4_ExchangeMintsOnePair ==
    \A r \in grantRequests, a \in TokenAuth :
        (r.Code.Valid /\ AuthClient(a) # {}
            /\ The(AuthClient(a)).UUID = r.ClientUUID) =>
            LET out == Exchange(a, r.Code.String)
                access == out.db.accessTokens \ accessTokens
                refresh == out.db.refreshTokens \ refreshTokens
            IN  /\ accessTokens \subseteq out.db.accessTokens
                /\ refreshTokens \subseteq out.db.refreshTokens
                /\ Cardinality(access) = 1
                /\ Cardinality(refresh) = 1
                /\ \A t \in access :
                        /\ t.Scope = r.ScopeRequested
                        /\ t.AccountUUID = r.AccountUUID
                        /\ t.ClientUUID = r.ClientUUID
                        /\ t.Token = out.resp.access
                        /\ \A u \in accessTokens : u.Token # t.Token
                /\ \A t \in refresh :
                        /\ t.Scope = r.ScopeRequested
                        /\ t.AccountUUID = r.AccountUUID.String
                        /\ t.ClientUUID = r.ClientUUID
                        /\ t.Token = out.resp.refresh
                /\ out.resp.status = 200
                /\ out.resp.access # out.resp.refresh
                /\ GetGrantRequest(out.db, r.Token) = {}
                /\ out.db.grantRequests = grantRequests \ {r}

\* an exchange has created an access and a refresh token for an account
C4_Witness ==
    \E e \in exchanged :
        /\ \E t \in accessTokens : t.Token = e.Access /\ t.AccountUUID.Valid
        /\ \E t \in refreshTokens : t.Token = e.Refresh
        /\ grantRequests = {}

----------------------------------------------------------------------------
(* Properties of the consent flow *)

\* the scope approved for a client and an account; empty if there is none
ApprovedFor(apps, clientUUID, accountUUID) ==
    UNION { a.Scope : a \in { b \in apps : /\ b.ClientUUID = clientUUID
                                           /\ b.AccountUUID = accountUUID } }

\* C5: no step of the grant flow (Authorize, Login, Approve with its
\* finalization, the code exchange) removes an approval or takes a scope name
\* away from it.
C5_ApprovalOnlyGrows ==
    [][\A a \in approvals :
          \E b \in approvals' :
              /\ b.ClientUUID = a.ClientUUID
              /\ b.AccountUUID = a.AccountUUID
              /\ a.Scope \subseteq b.Scope]_vars

\* an approval was extended by a second consent: the first request of the
\* run (token 1) was consented to and finalized with the access token 2 of a
\* scope outside the whitelist, so the approval was that scope then, and the
\* approval of the same client and account now holds more
C5_Witness ==
    \E t \in accessTokens, a \in approvals :
        /\ t.Token = 2
        /\ a.ClientUUID = t.ClientUUID
        /\ t.AccountUUID = NullString(a.AccountUUID)
        /\ t.Scope \cap The(GetClient(t.ClientUUID)).ScopeWhitelist = {}
        /\ t.Scope \subseteq a.Scope
        /\ t.Scope # a.Scope

\* C7: Approve is rejected for a request that does not exist (404), for a
\* request without an account (401 "Grant request is not authenticated") and
\* for an approved scope that lacks a name of (requested - whitelist) (401
\* "Requested scope was not approved"); a rejected Approve changes nothing:
\* no approval, no code, no token, and the request stays.
C7_RejectedConsentChangesNothing ==
    \A id \in Tokens, w \in ScopeWires :
        LET out == Approve(DB, id, w)
            found == { r \in grantRequests : r.Token = id }
            approved == { w[i] : i \in DOMAIN w }
        IN  /\ found = {} =>
                /\ out.resp.status = 404
                /\ out.resp.msg = "Grant request does not exist"
                /\ out.db = DB
            /\ \A r \in found :
                LET whitelist == The(GetClient(r.ClientUUID)).ScopeWhitelist
                IN  /\ ~r.AccountUUID.Valid =>
                        /\ out.resp.status = 401
                        /\ out.resp.msg = "Grant request is not authenticated"
                        /\ out.db = DB
                    /\ (r.AccountUUID.Valid
                        /\ ~((r.ScopeRequested \ whitelist) \subseteq approved)) =>
                        /\ out.resp.status = 401
                        /\ out.resp.msg = "Requested scope was not approved"
                        /\ out.db = DB

\* an authenticated request waits for consent, and a consent that approves
\* too little is rejected
C7_Witness ==
    \E r \in grantRequests, w \in ScopeWires :
        /\ r.AccountUUID.Valid
        /\ ~r.Code.Valid
        /\ ~IsApproved(DB, r)
        /\ w # <<>>
        /\ Approve(DB, r.Token, w).resp.msg = "Requested scope was not approved"

\* the handler that answered `out` has finalized the stored request `old`
\* as `r`: a code request carries a new code and stays stored, a token
\* request is deleted and has its access token
Finalized(out, old, r) ==
    IF r.GrantType = "code"
    THEN /\ out.resp.status = 302
         /\ out.resp.code > rnd
         /\ out.db.grantRequests =
                (grantRequests \ {old})
                    \cup {[r EXCEPT !.Code = NullString(out.resp.code)]}
         /\ out.db.accessTokens = accessTokens
    ELSE /\ out.resp.status = 302
         /\ out.resp.access > rnd
         /\ out.db.grantRequests = grantRequests \ {old}
         /\ out.db.accessTokens = accessTokens \cup
                {[Token |-> out.resp.access, ClientUUID |-> r.ClientUUID,
                  AccountUUID |-> r.AccountUUID, Scope |-> r.ScopeRequested]}

\* C8: a consent that approves at least (requested - whitelist) for an
\* authenticated request grants the whole requested scope: afterwards the
\* approval of the request's client and account contains every requested
\* name, and the request is finalized.
C8_ConsentGrantsFullScope ==
    \A r \in grantRequests, w \in ScopeWires :
        LET out == Approve(DB, r.Token, w)
            whitelist == The(GetClient(r.ClientUUID)).ScopeWhitelist
            approved == { w[i] : i \in DOMAIN w }
        IN  (r.AccountUUID.Valid
             /\ (r.ScopeRequested \ whitelist) \subseteq approved) =>
                /\ r.ScopeRequested \subseteq
                       ApprovedFor(out.db.approvals, r.ClientUUID,
                                   r.AccountUUID.String)
                /\ Finalized(out, r, r)

\* a consent has approved a scope of which the whitelist covers a part, and
\* the request carries its code
C8_Witness ==
    \E r \in grantRequests :
        LET whitelist == The(GetClient(r.ClientUUID)).ScopeWhitelist
        IN  /\ r.Code.Valid
            /\ r.AccountUUID.Valid
            /\ r.ScopeRequested \cap whitelist # {}
            /\ r.ScopeRequested \ whitelist # {}
            /\ r.ScopeRequested \subseteq
                   ApprovedFor(approvals, r.ClientUUID, r.AccountUUID.String)

\* the approval predicate of a client, an account and a requested scope,
\* read from the ledger `apps`
ApprovedByLedger(apps, clientUUID, accountUUID, scope) ==
    LET required == scope \ The(GetClient(clientUUID)).ScopeWhitelist
    IN  \/ required = {}
        \/ \E a \in apps :
              /\ a.ClientUUID = clientUUID
              /\ a.AccountUUID = accountUUID
              /\ required \subseteq a.Scope

\* C9: IsApproved is (requested - whitelist) = {} or the approval of the
\* request's client and account contains (requested - whitelist), read from
\* the ledger as it is at the call: a Login finalizes the request exactly if
\* that holds for the account that logs in, and a request without an account
\* is approved exactly if the whitelist contains its scope.  The request has
\* no field that stores the answer.
C9_IsApprovedReadsTheLedger ==
    /\ \A r \in grantRequests :
            /\ IsApproved(DB, r) <=>
                   ApprovedByLedger(approvals, r.ClientUUID,
                                    r.AccountUUID.String, r.ScopeRequested)
            /\ ~r.AccountUUID.Valid =>
                   (IsApproved(DB, r) <=>
                        r.ScopeRequested \subseteq
                            The(GetClient(r.ClientUUID)).ScopeWhitelist)
            /\ DOMAIN r = {"Token", "GrantType", "RedirectURI", "State",
                           "ScopeRequested", "ClientUUID", "AccountUUID",
                           "Code"}
    /\ \A r \in grantRequests, acc \in Accounts :
            LET out == Login(DB, r.Token, acc.Login, acc.Password)
                authed == [r EXCEPT !.AccountUUID = NullString(acc.UUID)]
            IN  IF ApprovedByLedger(approvals, r.ClientUUID, acc.UUID,
                                    r.ScopeRequested)
                THEN Finalized(out, r, authed)
                ELSE /\ out.resp.msg = "/oauth/approve_page"
                     /\ out.db.grantRequests =
                            (grantRequests \ {r}) \cup {authed}
                     /\ out.db.accessTokens = accessTokens
                     /\ out.db.rnd = rnd

\* a Login was sent on to the approve page although the ledger holds an
\* approval, because the approval is not the one of its client and account or
\* does not cover what the whitelist lacks
C9_Witness ==
    \E r \in grantRequests :
        /\ r.AccountUUID.Valid
        /\ ~r.Code.Valid
        /\ approvals # {}
        /\ ~ApprovedByLedger(approvals, r.ClientUUID, r.AccountUUID.String,
                             r.ScopeRequested)

----------------------------------------------------------------------------
(* Properties of the approval ledger *)

ValidScopes == { s \in ScopeSets : s # {} /\ s \subseteq {"read", "profile"} }

\* the approvals after Client.Approve(account, scope) on the approvals `apps`
Granted(apps, client, accountUUID, scope) ==
    ClientApprove([DB EXCEPT !.approvals = apps], client, accountUUID,
                  scope).db.approvals

\* C6: Client.Approve with a valid scope s creates the approval with scope s
\* if there is none, replaces its scope by the union with s if it lacks a name
\* of s, and writes nothing otherwise; so two grants give the union of both
\* in either order, and a repeated grant changes nothing.
C6_GrantIsUnion ==
    \A c \in Clients, acc \in AccountUUIDs, s \in ValidScopes :
        LET existing == { a \in approvals : /\ a.ClientUUID = c.UUID
                                            /\ a.AccountUUID = acc }
            others == approvals \ existing
            out == ClientApprove(DB, c, acc, s)
            after == out.db.approvals
        IN  /\ out.err = ""
            /\ Cardinality(existing) <= 1
            /\ existing = {} =>
                   after = approvals \cup
                       {[ClientUUID |-> c.UUID, AccountUUID |-> acc,
                         Scope |-> s]}
            /\ \A e \in existing :
                   IF s \subseteq e.Scope
                   THEN out.db = DB
                   ELSE after = others \cup
                            {[e EXCEPT !.Scope = e.Scope \cup s]}
            /\ [out.db EXCEPT !.approvals = approvals] = DB
            /\ \A t \in ValidScopes :
                   /\ Granted(Granted(approvals, c, acc, s), c, acc, t)
                          = Granted(Granted(approvals, c, acc, t), c, acc, s)
                   /\ ApprovedFor(Granted(Granted(approvals, c, acc, s),
                                          c, acc, t), c.UUID, acc)
                          = ApprovedFor(approvals, c.UUID, acc) \cup s \cup t
            /\ Granted(after, c, acc, s) = after

\* grants have extended an approval, and another pair has no approval yet
C6_Witness ==
    /\ \E a \in approvals : a.Scope = {"read", "profile"}
    /\ \E a \in approvals : a.Scope = {"read"}
    /\ \E c \in Clients, acc \in AccountUUIDs :
           ApprovalForAccount(DB, c, acc) = {}

----------------------------------------------------------------------------
(* Properties of the password grant *)

\* C10: the password grant creates an access token only for a login that
\* exists with its password and a scope that is not empty and within the
\* whitelist of the client of the request; the token has that account, that
\* client and exactly that scope; no refresh token is created or returned.
\* With an empty scope or one outside the whitelist nothing is created and
\* the answer is 401, with the message "Invalid scope" once the login and the
\* password have been verified.
C10_PasswordGrantWithinWhitelist ==
    \A a \in TokenAuth, l \in Logins, p \in Passwords, w \in ScopeWires :
        LET out == Token(DB, a.ok, a.header, PasswordBody(a, l, p, w))
            created == out.db.accessTokens \ accessTokens
            scope == { w[i] : i \in DOMAIN w }
            verified == { acc \in Accounts :
                            acc.Login = l /\ acc.Password = p }
        IN  /\ accessTokens \subseteq out.db.accessTokens
            /\ out.db.refreshTokens = refreshTokens
            /\ out.resp.refresh = 0
            /\ created # {} =>
                   /\ AuthClient(a) # {}
                   /\ verified # {}
                   /\ scope # {}
                   /\ scope \subseteq The(AuthClient(a)).ScopeWhitelist
                   /\ created =
                          {[Token |-> out.resp.access,
                            AccountUUID |-> NullString(The(verified).UUID),
                            ClientUUID |-> The(AuthClient(a)).UUID,
                            Scope |-> scope]}
                   /\ out.resp.status = 200
                   /\ \A t \in accessTokens : t.Token # out.resp.access
            /\ (AuthClient(a) # {}
                /\ ~(scope # {}
                     /\ scope \subseteq The(AuthClient(a)).ScopeWhitelist)) =>
                   /\ out.db = DB
                   /\ out.resp.status = 401
                   /\ verified # {} => out.resp.msg = "Invalid scope"

\* the password grant has created a token for an account, and the client
\* could ask for a scope of the catalog that its whitelist lacks
C10_Witness ==
    /\ \E t \in accessTokens :
           /\ t.AccountUUID.Valid
           /\ t.Scope = {"read"}
           /\ \E c \in Clients :
                  /\ c.UUID = t.ClientUUID
                  /\ CheckScope({"profile"})
                  /\ ~({"profile"} \subseteq c.ScopeWhitelist)
    /\ refreshTokens = {}

----------------------------------------------------------------------------
(* Properties of the client_credentials grant *)

\* C11: for an authenticated client the client_credentials grant creates an
\* access token exactly if the scope is not empty and within the client's
\* whitelist; the token has exactly that scope, the client and no account; no
\* refresh token is created or returned; otherwise the answer is 401
\* "Invalid scope" and nothing is created.
C11_ClientCredentialsWithinWhitelist ==
    \A a \in TokenAuth, w \in ScopeWires :
        LET out == Token(DB, a.ok, a.header, CredentialsBody(a, w))
            created == out.db.accessTokens \ accessTokens
            scope == { w[i] : i \in DOMAIN w }
        IN  /\ accessTokens \subseteq out.db.accessTokens
            /\ out.db.refreshTokens = refreshTokens
            /\ out.resp.refresh = 0
            /\ AuthClient(a) = {} => created = {}
            /\ AuthClient(a) # {} =>
                   LET client == The(AuthClient(a))
                   IN  IF scope # {} /\ scope \subseteq client.ScopeWhitelist
                       THEN /\ created =
                                   {[Token |-> out.resp.access,
                                     AccountUUID |-> NoAccount,
                                     ClientUUID |-> client.UUID,
                                     Scope |-> scope]}
                            /\ out.resp.status = 200
                            /\ out.resp.scope = scope
                            /\ \A t \in accessTokens :
                                   t.Token # out.resp.access
                       ELSE /\ out.db = DB
                            /\ out.resp = Response(401, "Invalid scope")

\* the grant has created a token of scope {read} for a client whose whitelist
\* holds more, and the token has no account
C11_Witness ==
    \E t \in accessTokens :
        /\ ~t.AccountUUID.Valid
        /\ t.Scope = {"read"}
        /\ The(GetClient(t.ClientUUID)).ScopeWhitelist = {"read", "write"}

----------------------------------------------------------------------------
(* Properties of the refresh_token grant *)

\* the token request of a.ok, a.header with the given refresh token, on the
\* database db
Refresh(db, a, token) == Token(db, a.ok, a.header, RefreshBody(a, token))

\* C12: an exchange of a refresh token by its client leaves the refresh token
\* as it is (not deleted, not replaced), creates one new access token with the
\* refresh token's scope, account and client and a token string no access
\* token has, and returns no refresh token; the same holds for the exchange
\* after it, whose access token differs from the first.
C12_RefreshTokenSurvives ==
    \A t \in refreshTokens, a \in TokenAuth :
        (AuthClient(a) # {} /\ The(AuthClient(a)).UUID = t.ClientUUID) =>
            LET out == Refresh(DB, a, t.Token)
                again == Refresh(out.db, a, t.Token)
            IN  /\ out.db.refreshTokens = refreshTokens
                /\ out.db.accessTokens = accessTokens \cup
                       {[Token |-> out.resp.access,
                         AccountUUID |-> NullString(t.AccountUUID),
                         ClientUUID |-> t.ClientUUID,
                         Scope |-> t.Scope]}
                /\ \A u \in accessTokens : u.Token # out.resp.access
                /\ out.resp.status = 200
                /\ out.resp.scope = t.Scope
                /\ out.resp.refresh = 0
                /\ out.db.grantRequests = grantRequests
                /\ again.resp.status = 200
                /\ again.resp.access # out.resp.access
                /\ again.db.refreshTokens = refreshTokens
                /\ Cardinality(again.db.accessTokens) =
                       Cardinality(accessTokens) + 2

\* a refresh token has been exchanged twice and is still stored: two access
\* tokens younger than it have its scope, account and client
C12_Witness ==
    \E t \in refreshTokens :
        \E u, v \in accessTokens :
            /\ u.Token > t.Token /\ v.Token > u.Token
            /\ u.Scope = t.Scope /\ v.Scope = t.Scope
            /\ u.ClientUUID = t.ClientUUID /\ v.ClientUUID = t.ClientUUID
            /\ u.AccountUUID = NullString(t.AccountUUID)
            /\ v.AccountUUID = NullString(t.AccountUUID)

\* C13: an exchange of a refresh token by a client that does not own it
\* deletes the refresh token, answers 401 "Invalid refresh token" as for a
\* refresh token that does not exist, and creates no access token; after it
\* the exchange by the owning client gets the same answer.
C13_MismatchBurnsTheRefreshToken ==
    \A t \in refreshTokens, a \in TokenAuth :
        (AuthClient(a) # {} /\ The(AuthClient(a)).UUID # t.ClientUUID) =>
            LET out == Refresh(DB, a, t.Token)
            IN  /\ out.resp = Response(401, "Invalid refresh token")
                /\ out.resp = Refresh(DB, a, 0).resp
                /\ out.db.refreshTokens = refreshTokens \ {t}
                /\ GetRefreshToken(out.db, t.Token) = {}
                /\ out.db.accessTokens = accessTokens
                /\ \A b \in TokenAuth :
                       (AuthClient(b) # {}
                        /\ The(AuthClient(b)).UUID = t.ClientUUID) =>
                           LET owner == Refresh(out.db, b, t.Token)
                           IN  /\ owner.resp =
                                      Response(401, "Invalid refresh token")
                               /\ owner.db = out.db

\* the refresh token of an exchange was deleted when another client
\* presented it
C13_Witness ==
    \E e \in exchanged :
        /\ \A t \in refreshTokens : t.Token # e.Refresh
        /\ \E u \in accessTokens : u.Token = e.Access

----------------------------------------------------------------------------
(* What the answers of the token endpoint tell *)

\* what a token request asks for, apart from the client's credentials
Grants ==
    { <<"authorization_code", t>> : t \in Tokens }
    \cup { <<"refresh_token", t>> : t \in Tokens }
    \cup { <<"password", l, p, w>> :
               l \in Logins, p \in Passwords, w \in ScopeWires }
    \cup { <<"client_credentials", w>> : w \in ScopeWires }

\* the body of the token request that asks for g with the credentials of a
GrantBody(a, g) ==
    CASE g[1] = "authorization_code" -> CodeBody(a, g[2])
      [] g[1] = "refresh_token" -> RefreshBody(a, g[2])
      [] g[1] = "password" -> PasswordBody(a, g[2], g[3], g[4])
      [] OTHER -> CredentialsBody(a, g[2])

\* the pairs of login and password that no account has
WrongLogins ==
    { lp \in Logins \X Passwords :
        \A acc \in Accounts : ~(acc.Login = lp[1] /\ acc.Password = lp[2]) }

\* C14: the answer of a failed authentication is the same whether the
\* credential is unknown or known and wrong: an unknown login and a wrong
\* password (401 "Wrong username or password"), an unknown client and a wrong
\* secret (401 "Wrong client id or client secret"), a code that does not exist
\* and the code of another client (401 "Invalid grant code"), a refresh token
\* that does not exist and the one of another client (401 "Invalid refresh
\* token").
C14_FailuresAnswerAlike ==
    /\ \A a \in TokenAuth, w \in ScopeWires, x, y \in WrongLogins :
           AuthClient(a) # {} =>
               LET rx == Token(DB, a.ok, a.header,
                               PasswordBody(a, x[1], x[2], w)).resp
                   ry == Token(DB, a.ok, a.header,
                               PasswordBody(a, y[1], y[2], w)).resp
               IN  /\ rx = ry
                   /\ rx = Response(401, "Wrong username or password")
    /\ \A a, b \in TokenAuth :
           (AuthClient(a) = {} /\ AuthClient(b) = {}) =>
               \A g \in Grants :
                   /\ Token(DB, a.ok, a.header, GrantBody(a, g)).resp
                          = Token(DB, b.ok, b.header, GrantBody(b, g)).resp
                   /\ Token(DB, a.ok, a.header, GrantBody(a, g)).resp
                          = WrongClient
    /\ \A a \in TokenAuth, r \in grantRequests :
           (AuthClient(a) # {} /\ r.Code.Valid
            /\ The(AuthClient(a)).UUID # r.ClientUUID) =>
               /\ Exchange(a, r.Code.String).resp = Exchange(a, 0).resp
               /\ Exchange(a, 0).resp = InvalidGrantCode
    /\ \A a \in TokenAuth, t \in refreshTokens :
           (AuthClient(a) # {} /\ The(AuthClient(a)).UUID # t.ClientUUID) =>
               /\ Refresh(DB, a, t.Token).resp = Refresh(DB, a, 0).resp
               /\ Refresh(DB, a, 0).resp
                      = Response(401, "Invalid refresh token")

\* a refresh token of client c1 is stored, which client c2 may present, and
\* the code it came from is gone; logins and clients that fail exist always
C14_Witness ==
    /\ \E t \in refreshTokens, e \in exchanged :
           /\ t.Token = e.Refresh
           /\ t.ClientUUID = "u1"
           /\ GetGrantRequestByCode(DB, e.Code) = {}
    /\ <<"mallory", "pa">> \in WrongLogins
    /\ <<"alice", "pb">> \in WrongLogins
    /\ \E a \in TokenAuth : AuthClient(a) = {}

----------------------------------------------------------------------------
(* Properties of the creation of a grant request *)

\* the names of the global catalog: what some client provides
Catalog == UNION { c.ScopeProvided : c \in Clients }

\* C15: Client.CreateGrantRequest fails and stores nothing if the response
\* type is neither "code" nor "token", or the redirect URI is not one of the
\* client's registered URIs, or the scope is empty or has a name outside the
\* catalog; otherwise it stores one new request with a token no request has,
\* the given grant type, redirect URI, state, scope and client, no account and
\* no code, and touches nothing else.
C15_CreateGrantRequestChecks ==
    \A c \in Clients, t \in ResponseTypes, u \in RedirectURIs,
       st \in States, sc \in ScopeSets :
        LET out == CreateGrantRequest(DB, c, t, u, st, sc)
            valid == /\ t \in {"code", "token"}
                     /\ u \in c.RedirectURIs
                     /\ sc # {}
                     /\ sc \subseteq Catalog
        IN  IF ~valid
            THEN /\ out.err # ""
                 /\ out.request = {}
                 /\ out.db = DB
            ELSE /\ out.err = ""
                 /\ Cardinality(out.request) = 1
                 /\ out.db.grantRequests = grantRequests \cup out.request
                 /\ [out.db EXCEPT !.grantRequests = grantRequests,
                                   !.rnd = rnd] = DB
                 /\ \A r \in out.request :
                        /\ r \notin grantRequests
                        /\ \A q \in grantRequests : q.Token # r.Token
                        /\ \A q \in accessTokens : q.Token # r.Token
                        /\ \A q \in refreshTokens : q.Token # r.Token
                        /\ r.GrantType = t
                        /\ r.RedirectURI = u
                        /\ r.State = st
                        /\ r.ScopeRequested = sc
                        /\ r.ClientUUID = c.UUID
                        /\ r.AccountUUID = NoAccount
                        /\ r.Code = NoCode
                        /\ ~r.AccountUUID.Valid /\ ~r.Code.Valid

\* a request has just been created: it is the youngest token, and has no
\* account and no code
C15_Witness ==
    \E r \in grantRequests :
        /\ r.Token = rnd
        /\ ~r.AccountUUID.Valid
        /\ ~r.Code.Valid
        /\ r.RedirectURI \in The(GetClient(r.ClientUUID)).RedirectURIs
        /\ accessTokens # {}

----------------------------------------------------------------------------
(* Properties of the finalization of a grant request *)

\* on the database db the first exchange of the code of r by the client
\* that owns r succeeds, and the one after it is rejected
Redeemable(db, r) ==
    \A a \in TokenAuth :
        (AuthClient(a) # {} /\ The(AuthClient(a)).UUID = r.ClientUUID) =>
            LET first == Token(db, a.ok, a.header,
                               CodeBody(a, r.Code.String))
                second == Token(first.db, a.ok, a.header,
                                CodeBody(a, r.Code.String))
            IN  /\ GetGrantRequestByCode(db, r.Code.String) # {}
                /\ first.resp.status = 200
                /\ second.resp = InvalidGrantCode

\* C17: the finalization of a request of grant type "token" deletes the
\* request and creates its access token (the request's client, account and
\* scope) as one step: in no state is the request of a finalization gone
\* while its access token is missing; no refresh token is created, and after
\* the finalization the request's token resolves no more.
C17_ImplicitFinalizationIsAtomic ==
    \A p \in Procs :
        (workers[p].pc # "idle"
         /\ The(workers[p].request).GrantType = "token") =>
            LET r == The(workers[p].request)
            IN  /\ refreshTokens = {}
                /\ workers[p].pc = "done" => GetGrantRequest(DB, r.Token) = {}
                /\ GetGrantRequest(DB, r.Token) = {} =>
                       \E t \in accessTokens :
                           /\ t.Token > r.Token
                           /\ t.ClientUUID = r.ClientUUID
                           /\ t.AccountUUID = r.AccountUUID
                           /\ t.Scope = r.ScopeRequested

\* C16: a finalized request of grant type "code" is stored with its code,
\* and the code it was issued stays redeemable exactly once whatever Login or
\* Approve is served for the request before the exchange: after any Login or
\* Approve on the request the first exchange of the issued code by the owning
\* client succeeds, and the next one is rejected.
C16_IssuedCodeStaysRedeemable ==
    \A r \in grantRequests :
        r.Code.Valid =>
            /\ r.GrantType = "code"
            /\ Redeemable(DB, r)
            /\ \A l \in Logins, p \in Passwords :
                   Redeemable(Login(DB, r.Token, l, p).db, r)
            /\ \A w \in ScopeWires :
                   Redeemable(Approve(DB, r.Token, w).db, r)

----------------------------------------------------------------------------
(* C18 *)

\* the access tokens a header names that exist and have not expired
Resolved(h) ==
    IF h.scheme = "Bearer" /\ h.spaces >= 1
    THEN { t \in accessTokens : t.Token = h.token /\ t.Token \notin expired }
    ELSE {}

\* C18: a non-permissive handler invokes the wrapped handler exactly when the
\* header has the form 'Bearer <token>', the token is an existing access token
\* that has not expired, and its scope meets the handler's scope; otherwise it
\* answers 401 with 'No bearer token', 'Invalid bearer token' or
\* 'Insufficient scope' in that order of checks.  A permissive handler always
\* invokes the wrapped handler, with no token information when the header is
\* absent, malformed or names no such token.
C18_BearerGate ==
    \A o \in OAuthHandlers, h \in Headers :
        LET b == ServeHTTPBegin(DB, expired, o, h)
            wellFormed == h.scheme = "Bearer" /\ h.spaces >= 1
        IN  IF o.Permissive
            THEN /\ b.invoke
                 /\ (Resolved(h) = {}) <=> (b.info = {})
            ELSE /\ b.invoke <=>
                        \E t \in Resolved(h) : t.Scope \cap o.scope # {}
                 /\ ~b.invoke =>
                        /\ b.info = {}
                        /\ b.resp =
                             Response(401,
                                 IF ~wellFormed THEN "No bearer token"
                                 ELSE IF Resolved(h) = {}
                                      THEN "Invalid bearer token"
                                      ELSE "Insufficient scope")

\* a wrapped handler runs behind a non-permissive handler, another request
\* was rejected for its scope, and an access token has expired
C18_Witness ==
    /\ expired # {}
    /\ \E t \in accessTokens : t.Token \notin expired
    /\ \E r \in Requests :
        /\ serving[r].pc = "handler"
        /\ serving[r].info # {}
        /\ \E o \in serving[r].o : ~o.Permissive
    /\ \E r \in Requests :
        /\ serving[r].pc = "done"
        /\ serving[r].resp = Response(401, "Insufficient scope")

----------------------------------------------------------------------------
(* C19 *)

\* C19 (as stated): while a wrapped handler runs for a request with an entry
\* in the store, the Token of the entry is the access token of the request's
\* header and its Match is the intersection of the token's scope with the
\* handler's scope.
C19_MatchIsIntersection ==
    \A r \in Requests :
        (serving[r].pc = "handler" /\ OAuthToken(tokens, r) # {}) =>
            LET info == The(OAuthToken(tokens, r))
                o == The(serving[r].o)
                h == The(serving[r].header)
            IN  /\ HasBearerPrefix(h)
                /\ info.Token \in accessTokens
                /\ info.Token.Token = BearerToken(h)
                /\ info.Match = info.Token.Scope \cap o.scope

\* C19 (amended): while a wrapped handler runs for a request with an entry in
\* the store, the Token of the entry is the access token of the request's
\* header; its Match is the intersection of the token's scope with the
\* handler's scope behind a non-permissive handler, and the token's whole
\* scope behind a permissive handler.
C19_MatchIsIntersectionUnlessPermissive ==
    \A r \in Requests :
        (serving[r].pc = "handler" /\ OAuthToken(tokens, r) # {}) =>
            LET info == The(OAuthToken(tokens, r))
                o == The(serving[r].o)
                h == The(serving[r].header)
            IN  /\ HasBearerPrefix(h)
                /\ info.Token \in accessTokens
                /\ info.Token.Token = BearerToken(h)
                /\ info.Match = IF o.Permissive
                                THEN info.Token.Scope
                                ELSE info.Token.Scope \cap o.scope

\* a wrapped handler behind a permissive handler sees the token's whole scope
\* while one behind a non-permissive handler sees a proper part of it
C19_Witness ==
    /\ \E r \in Requests :
        /\ serving[r].pc = "handler"
        /\ \E o \in serving[r].o : o.Permissive
        /\ \E info \in OAuthToken(tokens, r) :
               info.Match = info.Token.Scope /\ info.Match # {}
    /\ \E r \in Requests :
        /\ serving[r].pc = "handler"
        /\ \E o \in serving[r].o : ~o.Permissive
        /\ \E info \in OAuthToken(tokens, r) :
               /\ info.Match # info.Token.Scope
               /\ info.Match # The(serving[r].o).scope

----------------------------------------------------------------------------
(* C20 *)

\* C20: once oauth.ServeHTTP has returned for a request, by a rejection, by
\* the return of the wrapped handler or by its panic, the store has no entry
\* for the request; while the wrapped handler runs the store holds what this
\* call put there and nothing of an earlier request of the same identity.
C20_NoEntryAfterReturn ==
    \A r \in Requests :
        IF serving[r].pc = "handler"
        THEN OAuthToken(tokens, r) = serving[r].info
        ELSE OAuthToken(tokens, r) = {}

\* a wrapped handler that had an entry panicked, and the identity of such a
\* request is in use again without a token
C20_Witness ==
    /\ \E r \in Requests :
        /\ serving[r].pc = "done"
        /\ serving[r].resp = Response(500, "panic")
        /\ serving[r].info # {}
    /\ \E r \in Requests :
        /\ serving[r].pc = "handler"
        /\ serving[r].info = {}

----------------------------------------------------------------------------
(* C21 *)

\* C21: the insertion into tokens.store, the lookup in it and the removal
\* from it happen while the request holds the one mutex, so no two requests
\* are between Lock() and Unlock() at once; and a request whose bearer token
\* resolved finds in OAuthToken(r), whenever its wrapped handler calls it,
\* exactly the info that was inserted for it, whatever the other requests
\* insert or delete in between.
C21_LookupUnderMutex ==
    /\ \A r, q \in Requests :
           (serving[r].pc \in Critical /\ serving[q].pc \in Critical) => r = q
    /\ \A r \in Requests : serving[r].pc \in Critical <=> mutex = r
    /\ \A r \in Requests :
           (serving[r].pc = "lookup" /\ serving[r].info # {}) =>
               OAuthToken(tokens, r) = serving[r].info
    /\ \A r \in Requests :
           (serving[r].pc \in {"handler", "lockLookup"}
              /\ serving[r].seen # {}) =>
               serving[r].seen = serving[r].info

\* a wrapped handler has read its own info while another request, which
\* carries another token, waits for the mutex to delete its entry
C21_Witness ==
    \E r, q \in Requests :
        /\ serving[r].pc = "lookup"
        /\ serving[r].seen # {}
        /\ serving[r].seen = serving[r].info
        /\ serving[q].pc = "lockDelete"
        /\ tokens[q] # {}
        /\ tokens[q] # tokens[r]

----------------------------------------------------------------------------
(* C22 *)

\* a token string that no access token was created with
NeverCreated == MaxRandom + MaxRefreshes + 1

\* C22: a stored access token whose expiry has passed is looked up like a
\* token that was never created: GetAccessToken finds nothing, Validate
\* answers 404 'The requested token does not exist', and every bearer handler
\* acts as for the unknown token, a non-permissive one with 401 'Invalid
\* bearer token'; the expired token is still stored, only the lookup filters
\* it.
C22_ExpiredIsNotFound ==
    /\ \A t \in accessTokens : t.Token # NeverCreated
    /\ \A e \in expired :
        /\ \E t \in accessTokens : t.Token = e
        /\ GetAccessToken(DB, expired, e) = {}
        /\ GetAccessToken(DB, expired, e)
               = GetAccessToken(DB, expired, NeverCreated)
        /\ Validate(DB, expired, e)
               = Response(404, "The requested token does not exist")
        /\ Validate(DB, expired, e) = Validate(DB, expired, NeverCreated)
        /\ \A o \in OAuthHandlers :
            /\ ServeHTTPBegin(DB, expired, o, Header("Bearer", 1, e, 0))
                  = ServeHTTPBegin(DB, expired, o,
                                   Header("Bearer", 1, NeverCreated, 0))
            /\ ~o.Permissive =>
                  ServeHTTPBegin(DB, expired, o, Header("Bearer", 1, e, 0))
                     = Unauthorized("Invalid bearer token")

\* one access token has expired while another one is still validated, and a
\* request was rejected for its bearer token
C22_Witness ==
    /\ \E e \in expired : \E t \in accessTokens : t.Token = e
    /\ \E t \in accessTokens :
           /\ t.Token \notin expired
           /\ Validate(DB, expired, t.Token).status = 200
    /\ \E r \in Requests :
           /\ serving[r].pc = "done"
           /\ serving[r].resp = Response(401, "Invalid bearer token")

----------------------------------------------------------------------------
(* C23 *)

\* C23: CheckScope(s) is false for the empty scope, and for any other scope
\* it is true exactly if every name of s is provided by some registered
\* client, no matter which; the scope of every stored grant request has
\* passed it.
C23_CheckScopeIsGlobal ==
    /\ ~CheckScope({})
    /\ \A s \in SUBSET {"read", "profile", "email", "write", "bogus"} :
           s # {} =>
               (CheckScope(s) <=>
                   \A n \in s : \E c \in Clients : n \in c.ScopeProvided)
    /\ \A r \in grantRequests :
           /\ CheckScope(r.ScopeRequested)
           /\ \A n \in r.ScopeRequested :
                  \E c \in Clients : n \in c.ScopeProvided

\* a grant request is stored whose scope no single client provides: its
\* names come from the catalogs of two clients
C23_Witness ==
    \E r \in grantRequests :
        /\ \A c \in Clients : ~(r.ScopeRequested \subseteq c.ScopeProvided)
        /\ CheckScope(r.ScopeRequested)

----------------------------------------------------------------------------
(* C24 *)

\* the database whose store refuses to create rows
StoreDown == [DB EXCEPT !.createFails = TRUE]

\* C24: when the store fails to create the token of a token request that
\* would otherwise succeed, whatever the grant type, the request is answered
\* with an internal error (500) and not with an authentication error, the
\* answer carries no token, no token is stored, and no further token is
\* generated for a second attempt.
C24_CreateFailureIsInternalError ==
    \A a \in TokenAuth, g \in Grants :
        LET ok == Token(DB, a.ok, a.header, GrantBody(a, g))
            out == Token(StoreDown, a.ok, a.header, GrantBody(a, g))
        IN  ok.resp.status = 200 =>
                /\ out.resp.status = 500
                /\ out.resp.access = 0
                /\ out.resp.refresh = 0
                /\ out.db.accessTokens = accessTokens
                /\ out.db.refreshTokens = refreshTokens
                /\ out.db.rnd <= ok.db.rnd

----------------------------------------------------------------------------
(* C25 *)

\* C25: an access token created with a scope, a client and an account, or
\* with no account, is returned by GetAccessToken under its token string
\* with the same scope and the same account as long as its expiry has not
\* passed; after the token is deleted, and for a token string that was never
\* created, GetAccessToken finds nothing.
C25_CreateGetDelete ==
    /\ \A token \in FreshTokens(DB) :
           LET db1 == AccessTokenCreate(Drawn(DB), token)
               got == GetAccessToken(db1, expired, token.Token)
           IN  /\ got = {token}
               /\ \A t \in got : /\ t.Scope = token.Scope
                                  /\ t.AccountUUID = token.AccountUUID
                                  /\ t.ClientUUID = token.ClientUUID
               /\ GetAccessToken(AccessTokenDelete(db1, token), expired,
                                 token.Token) = {}
    /\ \A t \in accessTokens :
           /\ t.Token \notin expired =>
                  GetAccessToken(DB, expired, t.Token) = {t}
           /\ GetAccessToken(AccessTokenDelete(DB, t), expired, t.Token) = {}
    /\ \A n \in 1 .. NeverCreated :
           (\A t \in accessTokens : t.Token # n) =>
               GetAccessToken(DB, expired, n) = {}

\* a token with an account and a token without one are stored and found,
\* and a token that was created has been deleted
C25_Witness ==
    /\ \E t \in accessTokens :
           /\ t.AccountUUID.Valid
           /\ GetAccessToken(DB, expired, t.Token) = {t}
    /\ \E t \in accessTokens :
           /\ ~t.AccountUUID.Valid
           /\ GetAccessToken(DB, expired, t.Token) = {t}
    /\ \E n \in 1 .. rnd :
           /\ n \notin expired
           /\ \A t \in accessTokens : t.Token # n

----------------------------------------------------------------------------
(* C26 *)

\* the answer of a finalization: the redirect with a code or an access token
Finalizes(resp) == resp.code # 0 \/ resp.access # 0

\* C26: Login and Approve finalize a grant request, with a code or with an
\* access token, only from a database in which the request has an account
\* and IsApproved(request) holds; elsewhere they answer without a code or a
\* token.  After a ledger grant that returned no error IsApproved holds, so
\* Approve never ends in its panic.
C26_FinalizeOnlyApproved ==
    /\ \A id \in Tokens, l \in Logins, p \in Passwords :
           LET b == LoginBeforeFinish(DB, id, l, p)
               out == Login(DB, id, l, p)
           IN  /\ Finalizes(out.resp) <=> b.request # {}
               /\ \A r \in b.request :
                      /\ r.AccountUUID.Valid
                      /\ r \in b.db.grantRequests
                      /\ IsApproved(b.db, r)
                      /\ out = finishRequest(b.db, r)
    /\ \A id \in Tokens, w \in ScopeWires :
           LET b == ApproveBeforeFinish(DB, id, w)
               out == Approve(DB, id, w)
           IN  /\ Finalizes(out.resp) <=> b.request # {}
               /\ \A r \in b.request :
                      /\ r.AccountUUID.Valid
                      /\ r \in b.db.grantRequests
                      /\ IsApproved(b.db, r)
                      /\ out = finishRequest(b.db, r)
               /\ out.resp # Response(500, "panic")
               /\ \A r \in GetGrantRequest(DB, id) :
                      LET approved == ClientApprove(DB, RequestClient(r),
                                          r.AccountUUID.String,
                                          r.ScopeRequested)
                      IN  (r.AccountUUID.Valid /\ approved.err = "") =>
                              IsApproved(approved.db, r)

\* a request that needed a consent was finalized by Approve: it has an
\* account, a code, and a scope outside the whitelist of its client
C26_Witness ==
    \E r \in grantRequests :
        /\ r.AccountUUID.Valid
        /\ r.Code.Valid
        /\ ~(r.ScopeRequested \subseteq RequestClient(r).ScopeWhitelist)
        /\ IsApproved(DB, r)

----------------------------------------------------------------------------
(* C27 *)

\* the scope is whitelisted by the client or approved by the account
ScopeIsApproved(clientUUID, accountUUID, scope) ==
    LET client == The(GetClient(clientUUID))
        required == scope \ client.ScopeWhitelist
    IN  \/ required = {}
        \/ \E a \in approvals :
               /\ a.ClientUUID = clientUUID
               /\ a.AccountUUID = accountUUID
               /\ required \subseteq a.Scope

\* C27: every stored grant request that holds an exchange code has an
\* account and is approved for that account (requested - whitelist is empty
\* or within the approval of its client and account); hence every access
\* token and refresh token minted by an authorization_code exchange belongs
\* to an account for which the scope was approved.
C27_CodedRequestIsApproved ==
    /\ \A r \in grantRequests :
           r.Code.Valid =>
               /\ r.AccountUUID.Valid
               /\ ScopeIsApproved(r.ClientUUID, r.AccountUUID.String,
                                  r.ScopeRequested)
    /\ \A e \in exchanged :
           /\ \A t \in accessTokens :
                  t.Token = e.Access =>
                      /\ t.AccountUUID.Valid
                      /\ ScopeIsApproved(t.ClientUUID, t.AccountUUID.String,
                                         t.Scope)
           /\ \A t \in refreshTokens :
                  t.Token = e.Refresh =>
                      ScopeIsApproved(t.ClientUUID, t.AccountUUID, t.Scope)

----------------------------------------------------------------------------
(* C28 *)

\* C28: when two calls of Client.Approve for the same client and account,
\* with the scopes s1 and s2, have both returned without an error, however
\* their reads and writes were interleaved, the stored approval of the pair
\* contains s1 and s2, so the IsApproved check of either consent succeeds.
C28_ConcurrentGrantsKeepBoth ==
    \A p, q \in Procs :
        (/\ p # q
         /\ workers[p].pc = "returned" /\ workers[p].err = ""
         /\ workers[q].pc = "returned" /\ workers[q].err = ""
         /\ workers[p].client = workers[q].client
         /\ workers[p].account = workers[q].account) =>
            \E a \in ApprovalForAccount(DB, The(workers[p].client),
                                        workers[p].account) :
                workers[p].scope \cup workers[q].scope \subseteq a.Scope

----------------------------------------------------------------------------
(* C29 *)

\* the token request presents the name and the secret of a registered client
Presents(a) ==
    LET cred == IF a.ok THEN a.header ELSE a.body
    IN  \E c \in Clients :
           c.Name = cred.ClientId /\ c.Secret = cred.ClientSecret

\* C29: a token request whose client id is unknown or whose secret is not the
\* client's is answered 401 'Wrong client id or client secret' whatever its
\* grant type, code, refresh token, user name or scope, and leaves the
\* database as it was: no token is minted, no grant request and no refresh
\* token is deleted or changed.
C29_WrongClientChangesNothing ==
    \A a \in TokenAuth :
        ~Presents(a) =>
            \A body \in { GrantBody(a, g) : g \in Grants }
                          \cup {Body(a, "implicit")} :
                LET out == Token(DB, a.ok, a.header, body)
                IN  /\ out.resp =
                           Response(401, "Wrong client id or client secret")
                    /\ out.db = DB

\* a refresh token and its access token are stored, and a request with a
\* wrong secret that names the refresh token leaves both
C29_Witness ==
    \E t \in refreshTokens, a \in TokenAuth :
        /\ ~Presents(a)
        /\ accessTokens # {}
        /\ Token(DB, a.ok, a.header, RefreshBody(a, t.Token)).db = DB

====
